---- MODULE Spec2Model ----
(***************************************************************************)
(* Slot allocation of the booking application: TimeSlotService (book,      *)
(* free, cancel, reserve by coordinates, reschedule) over the shared slot  *)
(* collection, and BookingService (create, cancel, reschedule) over the    *)
(* bookings collection, with every store round trip of a call a separate   *)
(* step so that concurrent calls interleave exactly at their awaits.       *)
(*                                                                         *)
(* Time is counted in minutes.  A date is a day index (day 1 is Thursday   *)
(* 2024-02-15, day 0 the Wednesday before, day 3 the Saturday after); a    *)
(* time of day is minutes since midnight, which is what timeToMinutes      *)
(* makes of "HH:mm"; an instant is minutes since 00:00 UTC of day 0.  The   *)
(* local clock of the server is tz minutes ahead of UTC: "YYYY-MM-DD" is   *)
(* parsed as midnight UTC, while setHours, getDay and toTimeString work on *)
(* local time.  A time string "HH:mm" that DateUtil builds or takes apart  *)
(* is the pair <<HH, mm>>.                                                 *)
(***************************************************************************)
EXTENDS Integers, Sequences, FiniteSets, TLC

VARIABLES now, tz, slots, grid, bookings, call, bookTask, freeTask, listing, probe, batch, pre

vars == <<now, tz, slots, grid, bookings, call, bookTask, freeTask, listing, probe, batch, pre>>

-----------------------------------------------------------------------------
(* Bounds of the model *)

\* number of concurrent callers
NCallers == 2
\* the clock advances at most this many times, an hour each time
MaxTicks == 3
\* the bookings collection holds at most this many documents
MaxBookings == 2
\* a loop of generateTimeSlots is followed for at most this many iterations
MaxIterations == 16
\* a booking is rescheduled at most this many times
MaxReschedules == 1
\* a list handed to freeMultipleSlots has at most this many elements
MaxBatch == 2
\* getAvailableSlotsRange is asked for at most this many days
MaxRangeDays == 2

(* Configuration of TimeSlotService (constructor defaults) *)
AdvanceHours == 3
CancelWindowHours == 1
SlotDuration == 60
WorkStart == 540
WorkEnd == 1020

MinutesPerHour == 60
MinutesPerDay == 24 * MinutesPerHour

-----------------------------------------------------------------------------
(* Values *)

Callers == 1..NCallers

\* the two roles of the specifications with a rival
Mover == NCallers - 1
Rival == NCallers

\* an absent document field (and what an undefined argument leaves behind)
Unset == "unset"
\* the empty object {} that bookSlot stores for an omitted metadata argument
EmptyMeta == "{}"

Users == {"U1", "U2"}
UserArgs == Users \cup {Unset}
MetaArgs == {"M1", Unset}

\* slot ids of the rows in the collection; UnknownId addresses no row
SlotIds == {1, 2}
UnknownId == 0
IdArgs == SlotIds \cup {UnknownId}

Today == 1
\* rows as grid generation leaves them for day 1: 12:00 and 13:00
RowDate(s) == Today
RowStart(s) == 660 + s * SlotDuration

\* the coordinates of the rows
RowCoords == { <<RowDate(s), RowStart(s)>> : s \in SlotIds }

\* (date, time) coordinates a caller may ask for: the two rows, a grid time
\* without a row, a time after working hours, a Saturday, yesterday
Coords == { <<1, 720>>, <<1, 780>>, <<1, 840>>, <<1, 1080>>, <<3, 720>>, <<0, 720>> }

AVAILABLE == "available"
BOOKED == "booked"
BLOCKED == "blocked"

CONFIRMED == "confirmed"
CANCELLED == "cancelled"

\* booking ids are positions in the collection; id 0 addresses no booking
BookingIdArgs == 0..MaxBookings

\* the metadata object createBooking hands to bookSlotForBooking
BookingMeta == "booking-service"

Ok == "ok"
NotFound == "NotFound"
Conflict == "Conflict"
BadRequest == "BadRequest"
None == "none"

-----------------------------------------------------------------------------
(* DateUtil *)

\* new Date("YYYY-MM-DD"): midnight UTC of the date
parseDate(date) == date * MinutesPerDay

\* the local calendar day an instant falls on
localDay(instant) == (instant + tz) \div MinutesPerDay

\* date.setHours(hours, minutes, 0, 0): the local time of day on the local day
setHours(instant, time) == localDay(instant) * MinutesPerDay + time - tz

parseDateTime(date, time) == setHours(parseDate(date), time)

\* formatDate(new Date()): the date of toISOString, which is the UTC date
today == now \div MinutesPerDay

\* both dates are brought to local midnight before they are compared
isPastDateString(date) == setHours(parseDate(date), 0) < setHours(now, 0)

\* getDay(): 0 = Sunday ... 6 = Saturday, of the local day; day 1 is a Thursday
getDay(instant) == (localDay(instant) + 3) % 7

isWeekend(instant) == getDay(instant) = 0 \/ getDay(instant) = 6

isWeekendString(date) == isWeekend(parseDate(date))

\* formatDate(date): the date of toISOString, which is the UTC date
formatDate(instant) == instant \div MinutesPerDay

\* getDateRange(days, startDate): formatDate of startDate and of the days - 1
\* instants that setDate(getDate() + 1) reaches from it
getDateRange(days, startDate) ==
    [ i \in 1..days |-> formatDate(startDate + (i - 1) * MinutesPerDay) ]

\* getBusinessDateRange(days, startDate): the loop runs until days dates have
\* been pushed, pushing the dates for which isWeekend is false
RECURSIVE getBusinessDateRange(_, _)
getBusinessDateRange(days, startDate) ==
    IF days <= 0 THEN << >>
    ELSE IF ~isWeekend(startDate)
    THEN <<formatDate(startDate)>> \o getBusinessDateRange(days - 1, startDate + MinutesPerDay)
    ELSE getBusinessDateRange(days, startDate + MinutesPerDay)

isWithinWorkingHours(time, startTime, endTime) == time >= startTime /\ time < endTime

meetsAdvanceNotice(bookingDateTime, minimumHours) ==
    bookingDateTime >= now + minimumHours * MinutesPerHour

\* the list of error messages, as the set of violated rules
validateBookingDateTime(date, time, advanceHours, startTime, endTime, allowWeekends) ==
    (IF isPastDateString(date) THEN {"past"} ELSE {})
    \cup (IF ~allowWeekends /\ isWeekendString(date) THEN {"weekend"} ELSE {})
    \cup (IF ~isWithinWorkingHours(time, startTime, endTime) THEN {"hours"} ELSE {})
    \cup (IF ~meetsAdvanceNotice(parseDateTime(date, time), advanceHours) THEN {"advance"} ELSE {})

\* "HH:mm".split(':').map(Number), then hours * 60 + minutes
timeToMinutes(timeString) == timeString[1] * MinutesPerHour + timeString[2]

\* the JavaScript remainder, which takes the sign of the dividend
Remainder(a, b) == IF a >= 0 THEN a % b ELSE -((-a) % b)

\* Math.floor(minutes / 60) and minutes % 60, each padded to two digits
minutesToTime(minutes) == << minutes \div MinutesPerHour, Remainder(minutes, MinutesPerHour) >>

\* minutesToTime(timeToMinutes(timeString) + minutes)
addMinutesToTime(timeString, minutes) == minutesToTime(timeToMinutes(timeString) + minutes)

\* (mutant) the loop runs up to and including the end time
LoopContinuesInclusive(minutes, endMinutes) == minutes <= endMinutes

\* the test of the for loop of generateTimeSlots
LoopContinues(minutes, endMinutes) == minutes < endMinutes

\* for (minutes = startMinutes; minutes < endMinutes; minutes += slotDuration) push;
\* a loop that has pushed MaxIterations slots and still goes on is cut off and
\* reported as not having returned
RECURSIVE TimeSlotLoop(_, _, _, _)
TimeSlotLoop(minutes, endMinutes, slotDuration, acc) ==
    IF ~LoopContinues(minutes, endMinutes) THEN [ returned |-> TRUE, slots |-> acc ]
    ELSE IF Len(acc) >= MaxIterations THEN [ returned |-> FALSE, slots |-> acc ]
    ELSE TimeSlotLoop(minutes + slotDuration, endMinutes, slotDuration,
                      Append(acc, minutesToTime(minutes)))

generateTimeSlots(startTime, endTime, slotDuration) ==
    TimeSlotLoop(timeToMinutes(startTime), timeToMinutes(endTime), slotDuration, << >>)

\* new Date(now.getTime() + advanceHours * 60 * 60 * 1000)
getMinimumBookingTime(advanceHours) == now + advanceHours * MinutesPerHour

\* date.toTimeString().slice(0, 5): the local time of day, without the day
formatTime(instant) ==
    minutesToTime((instant + tz) % MinutesPerDay)

getAvailableTimeSlotsForDate(date, startTime, endTime, slotDuration, advanceHours) ==
    LET allSlots == generateTimeSlots(startTime, endTime, slotDuration).slots
        minimumTimeString == formatTime(getMinimumBookingTime(advanceHours))
        Late(slot) == timeToMinutes(slot) >= timeToMinutes(minimumTimeString)
    IN IF isPastDateString(date) THEN << >>
       ELSE IF date # today THEN allSlots
       ELSE SelectSeq(allSlots, Late)

-----------------------------------------------------------------------------
(* The slot collection *)

\* a timestamp field is absent or holds the new Date() of the write that set
\* it; no operation reads the instant back, so the model keeps which of the two
NoTime == "unset"
Stamp == "date"

NewRow(s) ==
    [ date |-> RowDate(s), startTime |-> RowStart(s), duration |-> SlotDuration,
      status |-> AVAILABLE,
      bookedBy |-> Unset, bookedAt |-> NoTime, metadata |-> Unset, freedAt |-> NoTime ]

\* what a read of slot id s returns (exists = FALSE: no such row)
NoRow ==
    [ exists |-> FALSE, status |-> None, bookedBy |-> Unset, bookedAt |-> NoTime,
      metadata |-> Unset, freedAt |-> NoTime ]

\* a row that deleteMany has removed keeps its place in slots with no status:
\* no filter matches it and no read by id finds it
RemovedRow(r) ==
    [r EXCEPT !.status = None, !.bookedBy = Unset, !.bookedAt = NoTime,
              !.metadata = Unset, !.freedAt = NoTime]

\* a document that generateDaySlots has not inserted yet has its place in
\* slots too, with the status Absent
Absent == "absent"

IsDocument(r) == r.status \notin {None, Absent}

RowExists(s) == s \in SlotIds /\ IsDocument(slots[s])

RowView(s) ==
    IF RowExists(s)
    THEN [ exists |-> TRUE, status |-> slots[s].status, bookedBy |-> slots[s].bookedBy,
           bookedAt |-> slots[s].bookedAt, metadata |-> slots[s].metadata,
           freedAt |-> slots[s].freedAt ]
    ELSE NoRow

slotDateTime(s) == parseDateTime(slots[s].date, slots[s].startTime)

IdleCall ==
    [ op |-> "idle", pc |-> "idle", slotId |-> UnknownId, coord |-> <<0, 0>>,
      userId |-> Unset, meta |-> Unset, newSlot |-> UnknownId, result |-> None,
      bookingId |-> 0, upd |-> "off", daysOld |-> 0, cutoff |-> 0, storeError |-> FALSE ]

OffTask == [ pc |-> "off", slot |-> UnknownId, user |-> Unset, meta |-> Unset, res |-> None ]

\* a call of getAvailableSlots not in flight
IdleListing ==
    [ pc |-> "idle", date |-> 0, includeWeekends |-> FALSE, duration |-> 0,
      kind |-> None, slots |-> << >>, asOf |-> 0 ]

\* no DateUtil function has been applied
NoProbe == [ op |-> "none" ]

\* no batch operation is in flight
NoBatch == [ op |-> "none" ]

\* what the calls of the booking and slot operations leave alone
other == <<tz, grid, listing, probe, batch>>

\* the model starts on day 1 at the opening hour
StartInstant == Today * MinutesPerDay + WorkStart

Init ==
    /\ now = StartInstant
    /\ tz = 0
    /\ slots = [s \in SlotIds |-> NewRow(s)]
    /\ grid = << >>
    /\ bookings = << >>
    /\ listing = [c \in Callers |-> IdleListing]
    /\ probe = NoProbe
    /\ batch = NoBatch
    /\ call = [c \in Callers |-> IdleCall]
    /\ bookTask = [c \in Callers |-> OffTask]
    /\ freeTask = [c \in Callers |-> OffTask]
    /\ pre = NoRow

\* the clock moves on between any two steps
Tick ==
    /\ now + SlotDuration <= StartInstant + MaxTicks * SlotDuration
    /\ now' = now + SlotDuration
    /\ UNCHANGED <<slots, call, bookTask, freeTask>>

-----------------------------------------------------------------------------
(* Completion of a store task of caller c with outcome res.  bookSlot,     *)
(* freeSlot and bookSlotForBooking return what their single task returns.  *)
(* rescheduleSlot awaits Promise.all of a freeSlot and a bookSlot task: it *)
(* rejects with the first rejection and fulfils when both have fulfilled;  *)
(* the task that is still running keeps running either way.                *)
(* The calls of BookingService go on from the outcome: createBooking saves *)
(* the booking after a successful reserve and rethrows a failure;          *)
(* rescheduleBooking updates the booking after a successful rescheduleSlot *)
(* and rethrows BadRequest and NotFound, anything else as BadRequest;      *)
(* cancelBooking awaits Promise.all of the booking update and freeSlot and *)
(* turns every failure into BadRequest.                                    *)

IsReschedule(cl) == cl.op \in {"rescheduleSlot", "rescheduleBooking"}

\* the catch block of rescheduleBooking
RescheduleBookingError(res) == IF res \in {BadRequest, NotFound} THEN res ELSE BadRequest

Joined(cl, res, otherDone) ==
    IF cl.op = "rescheduleSlot"
    THEN [ cl EXCEPT
             !.result = IF cl.result = None /\ res # Ok THEN res
                        ELSE IF cl.result = None /\ otherDone THEN Ok
                        ELSE cl.result,
             !.pc = IF otherDone THEN "done" ELSE cl.pc ]
    ELSE IF cl.op = "rescheduleBooking"
    THEN [ cl EXCEPT
             !.result = IF cl.result = None /\ res # Ok THEN RescheduleBookingError(res)
                        ELSE cl.result,
             !.pc = IF ~otherDone THEN cl.pc
                    ELSE IF cl.result = None /\ res = Ok THEN "rb_update"
                    ELSE "done" ]
    ELSE IF cl.op = "createBooking"
    THEN IF res = Ok THEN [ cl EXCEPT !.pc = "cb_save" ]
         ELSE [ cl EXCEPT !.result = res, !.pc = "done" ]
    ELSE IF cl.op = "cancelBooking"
    THEN [ cl EXCEPT !.result = IF cl.upd = "failed" THEN cl.result
                                ELSE IF res = Ok THEN Ok ELSE BadRequest,
                     !.pc = IF cl.upd = "pending" THEN cl.pc ELSE "done" ]
    ELSE [ cl EXCEPT !.result = res, !.pc = "done" ]

FinishBook(c, res) ==
    /\ bookTask' = [bookTask EXCEPT ![c].pc = "done", ![c].res = res]
    /\ call' = [call EXCEPT ![c] = Joined(call[c], res, freeTask[c].pc \in {"off", "done"})]
    /\ UNCHANGED freeTask

FinishFree(c, res) ==
    /\ freeTask' = [freeTask EXCEPT ![c].pc = "done", ![c].res = res]
    /\ call' = [call EXCEPT ![c] = Joined(call[c], res, bookTask[c].pc \in {"off", "done"})]
    /\ UNCHANGED bookTask

\* a $set of a field to a possibly undefined value: an undefined value is
\* either dropped from the update (the field keeps its value) or stored as null
WriteUndefinable(old, v) == IF v = Unset THEN {old, Unset} ELSE {v}

-----------------------------------------------------------------------------
(* TimeSlotService.bookSlot *)

\* (mutant) the update addresses the slot by id alone
BookFilterIgnoresStatus(s) == s \in SlotIds

\* the filter of bookSlot's findOneAndUpdate
BookFilter(s) == s \in SlotIds /\ slots[s].status = AVAILABLE

\* metadata || {}
MetaOrEmpty(m) == IF m = Unset THEN EmptyMeta ELSE m

\* $set: {status: BOOKED, bookedBy, bookedAt: new Date(), metadata: metadata || {}}
BookedRow(r, b, m) ==
    [r EXCEPT !.status = BOOKED, !.bookedBy = b, !.bookedAt = Stamp,
              !.metadata = MetaOrEmpty(m)]

\* (mutant) the rollback resets the status alone
ReleasedRowKeepsHolder(r) == [r EXCEPT !.status = AVAILABLE]

\* $set: {status: AVAILABLE}, $unset: {bookedBy, bookedAt, metadata}
ReleasedRow(r) ==
    [r EXCEPT !.status = AVAILABLE, !.bookedBy = Unset, !.bookedAt = NoTime,
              !.metadata = Unset]

StartBookSlot(c, s, u, m) ==
    /\ call[c].pc = "idle"
    /\ call' = [call EXCEPT ![c] = [IdleCall EXCEPT !.op = "bookSlot", !.pc = "run",
                  !.slotId = s, !.userId = u, !.meta = m]]
    /\ bookTask' = [bookTask EXCEPT ![c] = [pc |-> "update", slot |-> s, user |-> u,
                                            meta |-> m, res |-> None]]
    /\ UNCHANGED <<now, slots, freeTask>>

\* findOneAndUpdate({_id, status: AVAILABLE}, {$set: BOOKED, bookedBy, bookedAt, metadata})
BookSlot_findOneAndUpdate(c) ==
    LET t == bookTask[c] IN
    /\ t.pc = "update"
    /\ IF BookFilter(t.slot)
       THEN /\ \E b \in WriteUndefinable(slots[t.slot].bookedBy, t.user) :
                 slots' = [slots EXCEPT ![t.slot] = BookedRow(slots[t.slot], b, t.meta)]
            /\ bookTask' = [bookTask EXCEPT ![c].pc = "check"]
       ELSE /\ bookTask' = [bookTask EXCEPT ![c].pc = "find"]
            /\ UNCHANGED slots
    /\ UNCHANGED <<now, call, freeTask>>

\* no document matched: findById tells an unknown id from a slot not available
BookSlot_findById(c) ==
    LET t == bookTask[c] IN
    /\ t.pc = "find"
    /\ FinishBook(c, IF RowExists(t.slot) THEN Conflict ELSE NotFound)
    /\ UNCHANGED <<now, slots>>

\* the double check of advance notice on the booked slot
BookSlot_doubleCheck(c) ==
    LET t == bookTask[c] IN
    /\ t.pc = "check"
    /\ IF meetsAdvanceNotice(slotDateTime(t.slot), AdvanceHours)
       THEN FinishBook(c, Ok)
       ELSE /\ bookTask' = [bookTask EXCEPT ![c].pc = "rollback"]
            /\ UNCHANGED <<call, freeTask>>
    /\ UNCHANGED <<now, slots>>

\* findByIdAndUpdate(slotId, {$set: AVAILABLE, $unset: bookedBy, bookedAt, metadata})
BookSlot_rollback(c) ==
    LET t == bookTask[c] IN
    /\ t.pc = "rollback"
    /\ slots' = IF RowExists(t.slot)
                THEN [slots EXCEPT ![t.slot] = ReleasedRow(slots[t.slot])]
                ELSE slots
    /\ FinishBook(c, BadRequest)
    /\ UNCHANGED now

bookSlot(c) ==
    \/ BookSlot_findOneAndUpdate(c)
    \/ BookSlot_findById(c)
    \/ BookSlot_doubleCheck(c)
    \/ BookSlot_rollback(c)

-----------------------------------------------------------------------------
(* TimeSlotService.freeSlot *)

\* (mutant) the filter expects the status the update is about to write
HolderFilterExpectsAvailable(s, u) ==
    /\ s \in SlotIds
    /\ slots[s].status = AVAILABLE
    /\ (u # Unset => slots[s].bookedBy = u)

\* (mutant) the filter never looks at the holder
HolderFilterIgnoresHolder(s, u) == s \in SlotIds /\ slots[s].status = BOOKED

\* the filter of freeSlot's and cancelSlot's findOneAndUpdate
HolderFilter(s, u) ==
    /\ s \in SlotIds
    /\ slots[s].status = BOOKED
    /\ (u # Unset => slots[s].bookedBy = u)

\* (mutant) the $unset leaves the reservation metadata behind
FreedRowKeepsMetadata(r) ==
    [r EXCEPT !.status = AVAILABLE, !.freedAt = Stamp, !.bookedBy = Unset,
              !.bookedAt = NoTime]

\* $set: {status: AVAILABLE, freedAt: new Date()}, $unset: {bookedBy, bookedAt, metadata}
FreedRow(r) ==
    [r EXCEPT !.status = AVAILABLE, !.freedAt = Stamp, !.bookedBy = Unset,
              !.bookedAt = NoTime, !.metadata = Unset]

StartFreeSlot(c, s, u) ==
    /\ call[c].pc = "idle"
    /\ call' = [call EXCEPT ![c] = [IdleCall EXCEPT !.op = "freeSlot", !.pc = "run",
                  !.slotId = s, !.userId = u]]
    /\ freeTask' = [freeTask EXCEPT ![c] = [pc |-> "update", slot |-> s, user |-> u,
                                            meta |-> Unset, res |-> None]]
    /\ UNCHANGED <<now, slots, bookTask>>

\* findOneAndUpdate(filter, {$set: AVAILABLE, freedAt, $unset: bookedBy, bookedAt, metadata})
FreeSlot_findOneAndUpdate(c) ==
    LET t == freeTask[c] IN
    /\ t.pc = "update"
    /\ IF HolderFilter(t.slot, t.user)
       THEN /\ slots' = [slots EXCEPT ![t.slot] = FreedRow(slots[t.slot])]
            /\ FinishFree(c, Ok)
       ELSE /\ freeTask' = [freeTask EXCEPT ![c].pc = "find"]
            /\ UNCHANGED <<slots, call, bookTask>>
    /\ UNCHANGED now

\* no document matched: unknown id, already available (no action needed), or conflict
FreeSlot_findById(c) ==
    LET t == freeTask[c] IN
    /\ t.pc = "find"
    /\ FinishFree(c, IF ~RowExists(t.slot) THEN NotFound
                     ELSE IF slots[t.slot].status = AVAILABLE THEN Ok
                     ELSE Conflict)
    /\ UNCHANGED <<now, slots>>

freeSlot(c) ==
    \/ FreeSlot_findOneAndUpdate(c)
    \/ FreeSlot_findById(c)

-----------------------------------------------------------------------------
(* TimeSlotService.cancelSlot *)

StartCancelSlot(c, s, u) ==
    /\ call[c].pc = "idle"
    /\ call' = [call EXCEPT ![c] = [IdleCall EXCEPT !.op = "cancelSlot", !.pc = "cancel_update",
                  !.slotId = s, !.userId = u]]
    /\ UNCHANGED <<now, slots, bookTask, freeTask>>

\* findOneAndUpdate(filter, {$set: AVAILABLE, $unset: bookedBy, bookedAt, metadata});
\* no document matched: NotFoundException, whatever the reason
CancelSlot_findOneAndUpdate(c) ==
    LET cl == call[c] IN
    /\ cl.pc = "cancel_update"
    /\ IF HolderFilter(cl.slotId, cl.userId)
       THEN /\ slots' = [slots EXCEPT ![cl.slotId] = ReleasedRow(slots[cl.slotId])]
            /\ call' = [call EXCEPT ![c].pc = "cancel_check"]
       ELSE /\ call' = [call EXCEPT ![c].pc = "done", ![c].result = NotFound]
            /\ UNCHANGED slots
    /\ UNCHANGED <<now, bookTask, freeTask>>

\* the cancellation window is checked on the slot that has just been freed
CancelSlot_checkWindow(c) ==
    LET cl == call[c] IN
    /\ cl.pc = "cancel_check"
    /\ IF meetsAdvanceNotice(slotDateTime(cl.slotId), CancelWindowHours)
       THEN call' = [call EXCEPT ![c].pc = "done", ![c].result = Ok]
       ELSE call' = [call EXCEPT ![c].pc = "cancel_rollback"]
    /\ UNCHANGED <<now, slots, bookTask, freeTask>>

\* findByIdAndUpdate(slotId, {$set: {status: BOOKED, bookedBy: userId}})
CancelSlot_rollback(c) ==
    LET cl == call[c] IN
    /\ cl.pc = "cancel_rollback"
    /\ \E b \in WriteUndefinable(slots[cl.slotId].bookedBy, cl.userId) :
          slots' = IF RowExists(cl.slotId)
                   THEN [slots EXCEPT ![cl.slotId].status = BOOKED, ![cl.slotId].bookedBy = b]
                   ELSE slots
    /\ call' = [call EXCEPT ![c].pc = "done", ![c].result = BadRequest]
    /\ UNCHANGED <<now, bookTask, freeTask>>

cancelSlot(c) ==
    \/ CancelSlot_findOneAndUpdate(c)
    \/ CancelSlot_checkWindow(c)
    \/ CancelSlot_rollback(c)

-----------------------------------------------------------------------------
(* TimeSlotService.findAvailableSlot, bookSlotForBooking, rescheduleSlot *)

\* the service validates with its own configuration; weekends are not allowed
ServiceValidation(coord) ==
    validateBookingDateTime(coord[1], coord[2], AdvanceHours, WorkStart, WorkEnd, FALSE)

\* a findOne that also matches the documents not inserted yet
AvailableOrAbsentAt(coord) ==
    { s \in SlotIds : /\ slots[s].date = coord[1]
                      /\ slots[s].startTime = coord[2]
                      /\ slots[s].status \in {AVAILABLE, Absent} }

\* findOne({date within the day, startTime: time, status: AVAILABLE})
AvailableAt(coord) ==
    { s \in SlotIds : /\ slots[s].date = coord[1]
                      /\ slots[s].startTime = coord[2]
                      /\ slots[s].status = AVAILABLE }

\* the row at the coordinates, whatever its status (RowView of UnknownId: none)
RowAt(coord) ==
    LET rows == { s \in SlotIds : /\ RowExists(s)
                                   /\ slots[s].date = coord[1]
                                   /\ slots[s].startTime = coord[2] }
    IN IF rows = {} THEN UnknownId ELSE CHOOSE s \in rows : TRUE

\* both operations begin with findAvailableSlot, whose validation runs before
\* its first await and throws BadRequestException
StartByCoordinates(c, op, s, coord, u, m) ==
    /\ call[c].pc = "idle"
    /\ call' = [call EXCEPT ![c] =
                  [IdleCall EXCEPT !.op = op, !.slotId = s, !.coord = coord,
                     !.userId = u, !.meta = m,
                     !.pc = IF ServiceValidation(coord) = {} THEN "find" ELSE "done",
                     !.result = IF ServiceValidation(coord) = {} THEN None ELSE BadRequest]]
    /\ UNCHANGED <<now, slots, bookTask, freeTask>>

StartBookSlotForBooking(c, coord, u, m) ==
    StartByCoordinates(c, "bookSlotForBooking", UnknownId, coord, u, m)

StartRescheduleSlot(c, s, coord, u) ==
    StartByCoordinates(c, "rescheduleSlot", s, coord, u, Unset)

\* the findOne of findAvailableSlot; null: BadRequestException. bookSlotForBooking
\* goes on to bookSlot(slot._id, userId, metadata)
FindAvailableSlot(c) ==
    LET cl == call[c] IN
    /\ cl.pc = "find"
    /\ IF AvailableAt(cl.coord) = {}
       THEN /\ call' = [call EXCEPT ![c].pc = "done", ![c].result = BadRequest]
            /\ UNCHANGED bookTask
       ELSE \E s \in AvailableAt(cl.coord) :
              IF IsReschedule(cl)
              THEN /\ call' = [call EXCEPT ![c].pc = "get", ![c].newSlot = s]
                   /\ UNCHANGED bookTask
              ELSE /\ call' = [call EXCEPT ![c].pc = "run", ![c].newSlot = s]
                   /\ bookTask' = [bookTask EXCEPT ![c] =
                        [pc |-> "update", slot |-> s, user |-> cl.userId,
                         meta |-> cl.meta, res |-> None]]
    /\ UNCHANGED <<now, slots, freeTask>>

\* getSlotById(currentSlotId), the ownership test, then
\* Promise.all([freeSlot(current, userId), bookSlot(new, userId, current.metadata)])
RescheduleSlot_getSlotById(c) ==
    LET cl == call[c] IN
    /\ cl.pc = "get"
    /\ IF ~RowExists(cl.slotId)
       THEN /\ call' = [call EXCEPT ![c].pc = "done", ![c].result = NotFound]
            /\ UNCHANGED <<bookTask, freeTask>>
       ELSE IF cl.userId # Unset /\ slots[cl.slotId].bookedBy # cl.userId
       THEN /\ call' = [call EXCEPT ![c].pc = "done", ![c].result = BadRequest]
            /\ UNCHANGED <<bookTask, freeTask>>
       ELSE /\ call' = [call EXCEPT ![c].pc = "run"]
            /\ freeTask' = [freeTask EXCEPT ![c] =
                 [pc |-> "update", slot |-> cl.slotId, user |-> cl.userId,
                  meta |-> Unset, res |-> None]]
            /\ bookTask' = [bookTask EXCEPT ![c] =
                 [pc |-> "update", slot |-> cl.newSlot, user |-> cl.userId,
                  meta |-> slots[cl.slotId].metadata, res |-> None]]
    /\ UNCHANGED <<now, slots>>


-----------------------------------------------------------------------------
(* TimeSlotService.getAvailableSlots, getOrCreateDaySlots, generateDaySlots *)

\* the configured working hours, as the strings they are
WorkingHoursStart == minutesToTime(WorkStart)
WorkingHoursEnd == minutesToTime(WorkEnd)

\* the arguments of getAvailableSlots: yesterday, today, tomorrow (a Friday),
\* the Saturday after; the configured duration and a half-day duration
ListingDates == 0..3
Durations == {SlotDuration, 4 * SlotDuration}

ByStartTime(a, b) == timeToMinutes(a.startTime) < timeToMinutes(b.startTime)

\* the rows of SlotIds
FixedRows ==
    [ s \in SlotIds |-> [ date |-> slots[s].date, startTime |-> minutesToTime(slots[s].startTime),
                          duration |-> slots[s].duration, status |-> slots[s].status ] ]

AllRows == FixedRows \o grid

\* find({date: {$gte: startOfDay, $lte: endOfDay}, duration}).sort({startTime: 1})
FindDaySlots(date, duration) ==
    LET OfDay(r) == IsDocument(r) /\ r.date = date /\ r.duration = duration
    IN SortSeq(SelectSeq(AllRows, OfDay), ByStartTime)

\* the documents generateDaySlots prepares for insertMany
SlotDocuments(date, duration) ==
    LET timeSlots == generateTimeSlots(WorkingHoursStart, WorkingHoursEnd, duration).slots
    IN [ i \in 1..Len(timeSlots) |-> [ date |-> date, startTime |-> timeSlots[i],
                                       duration |-> duration, status |-> AVAILABLE ] ]

\* AVAILABLE rows whose start time is among getAvailableTimeSlotsForDate(date, ...),
\* which is computed with the configured duration
filterAvailableSlots(rows, date) ==
    LET availableTimeSlots ==
            getAvailableTimeSlotsForDate(date, WorkingHoursStart, WorkingHoursEnd,
                                         SlotDuration, AdvanceHours)
        availableTimesSet == { availableTimeSlots[i] : i \in 1..Len(availableTimeSlots) }
        Kept(r) == r.status = AVAILABLE /\ r.startTime \in availableTimesSet
    IN SelectSeq(rows, Kept)

StartTimes(rows) == [ i \in 1..Len(rows) |-> rows[i].startTime ]

\* insertMany(slotDocuments): the documents that have their place in slots
\* come into being there, the others are appended to grid
InsertedInSlots(createdSlots) ==
    { s \in SlotIds :
         /\ slots[s].status = Absent
         /\ \E i \in 1..Len(createdSlots) :
               /\ createdSlots[i].date = slots[s].date
               /\ createdSlots[i].duration = slots[s].duration
               /\ createdSlots[i].startTime = minutesToTime(slots[s].startTime) }

SlotsAfterInsert(createdSlots) ==
    [ s \in SlotIds |-> IF s \in InsertedInSlots(createdSlots)
                        THEN [slots[s] EXCEPT !.status = AVAILABLE]
                        ELSE slots[s] ]

GridAfterInsert(createdSlots) ==
    LET Elsewhere(r) ==
           ~ \E s \in InsertedInSlots(createdSlots) :
                r.startTime = minutesToTime(slots[s].startTime)
    IN grid \o SelectSeq(createdSlots, Elsewhere)

\* the validation of the date with the opening hour as the time; invalid:
\* BadRequestException
ListingValidation(date, includeWeekends) ==
    validateBookingDateTime(date, WorkStart, AdvanceHours, WorkStart, WorkEnd, includeWeekends)

StartGetAvailableSlots(c, date, includeWeekends, duration) ==
    /\ listing[c].pc = "idle"
    /\ listing' = [listing EXCEPT ![c] =
                     [IdleListing EXCEPT !.date = date, !.includeWeekends = includeWeekends,
                        !.duration = duration,
                        !.asOf = IF ListingValidation(date, includeWeekends) = {} THEN 0 ELSE now,
                        !.pc = IF ListingValidation(date, includeWeekends) = {}
                               THEN "find" ELSE "done",
                        !.kind = IF ListingValidation(date, includeWeekends) = {}
                                 THEN None ELSE BadRequest]]
    /\ UNCHANGED <<now, tz, slots, grid, bookings, call, bookTask, freeTask, probe, batch, pre>>

\* the find of getOrCreateDaySlots: existing rows are returned and filtered
GetOrCreateDaySlots_find(c) ==
    LET l == listing[c]
        existingSlots == FindDaySlots(l.date, l.duration)
    IN /\ l.pc = "find"
       /\ IF Len(existingSlots) > 0
          THEN listing' = [listing EXCEPT ![c].pc = "done", ![c].kind = Ok, ![c].asOf = now,
                              ![c].slots = StartTimes(filterAvailableSlots(existingSlots, l.date))]
          ELSE listing' = [listing EXCEPT ![c].pc = "insert"]
       /\ UNCHANGED <<now, tz, slots, grid, bookings, call, bookTask, freeTask, probe, batch, pre>>

\* insertMany(slotDocuments, {ordered: false}); the collection has no unique
\* index, so every document is inserted
GenerateDaySlots_insertMany(c) ==
    LET l == listing[c]
        createdSlots == SlotDocuments(l.date, l.duration)
    IN /\ l.pc = "insert"
       /\ grid' = GridAfterInsert(createdSlots)
       /\ slots' = SlotsAfterInsert(createdSlots)
       /\ listing' = [listing EXCEPT ![c].pc = "done", ![c].kind = Ok, ![c].asOf = now,
                         ![c].slots = StartTimes(filterAvailableSlots(createdSlots, l.date))]
       /\ UNCHANGED <<now, tz, bookings, call, bookTask, freeTask, probe, batch, pre>>

ReturnListing(c) ==
    /\ listing[c].pc = "done"
    /\ listing' = [listing EXCEPT ![c] = IdleListing]
    /\ UNCHANGED <<now, tz, slots, grid, bookings, call, bookTask, freeTask, probe, batch, pre>>

getAvailableSlots(c) ==
    \/ GetOrCreateDaySlots_find(c)
    \/ GenerateDaySlots_insertMany(c)
    \/ ReturnListing(c)

-----------------------------------------------------------------------------
(* BookingService.createBooking *)

\* DateUtil.validateBookingDateTime(date, time, {advanceHours: 3, allowWeekends: false})
\* with the default working hours, as rescheduleBooking calls it
BookingValidation(coord) ==
    validateBookingDateTime(coord[1], coord[2], AdvanceHours, WorkStart, WorkEnd, FALSE)

\* a date field of a booking is the set of its values: empty when the
\* document has no such field
NoDate == {}
DateOf(instant) == {instant}

\* what is left at the id of a booking that deleteMany has removed
NoBooking ==
    [ userId |-> Unset, timeSlotId |-> UnknownId, coord |-> <<0, 0>>, status |-> None,
      rescheduleCount |-> 0, cancelledAt |-> NoDate ]

BookingExists(id) == id \in 1..Len(bookings) /\ bookings[id] # NoBooking

\* findOne({userId, bookingDate, bookingTime, status: {$ne: CANCELLED}})
ExistingBooking(u, coord) ==
    { id \in 1..Len(bookings) : /\ bookings[id].userId = u
                                /\ bookings[id].coord = coord
                                /\ bookings[id] # NoBooking
                                /\ bookings[id].status # CANCELLED }

\* calls of createBooking that will still save a booking
Creating == { c \in Callers : call[c].op = "createBooking" /\ call[c].pc # "done" }

\* Promise.all([userService.findById(userId), isSlotAvailable(date, time)]):
\* isSlotAvailable answers false at once when the validation fails
StartCreateBooking(c, u, coord) ==
    /\ call[c].pc = "idle"
    /\ Len(bookings) + Cardinality(Creating) < MaxBookings
    /\ call' = [call EXCEPT ![c] =
                  [IdleCall EXCEPT !.op = "createBooking", !.coord = coord, !.userId = u,
                     !.meta = BookingMeta,
                     !.pc = IF ServiceValidation(coord) = {} THEN "cb_avail" ELSE "done",
                     !.result = IF ServiceValidation(coord) = {} THEN None ELSE BadRequest]]
    /\ UNCHANGED <<now, slots, bookings, bookTask, freeTask>>

\* the findOne of isSlotAvailable; false: BadRequestException
CreateBooking_isSlotAvailable(c) ==
    LET cl == call[c] IN
    /\ cl.pc = "cb_avail"
    /\ call' = [call EXCEPT ![c].pc = IF AvailableAt(cl.coord) = {} THEN "done" ELSE "cb_dup",
                            ![c].result = IF AvailableAt(cl.coord) = {} THEN BadRequest ELSE None]
    /\ UNCHANGED <<now, slots, bookings, bookTask, freeTask>>

\* the duplicate check (ConflictException), then bookSlotForBooking, whose
\* findAvailableSlot validates again before its findOne
CreateBooking_findExisting(c) ==
    LET cl == call[c] IN
    /\ cl.pc = "cb_dup"
    /\ call' = [call EXCEPT
                  ![c].pc = IF ExistingBooking(cl.userId, cl.coord) # {} THEN "done"
                            ELSE IF ServiceValidation(cl.coord) # {} THEN "done"
                            ELSE "find",
                  ![c].result = IF ExistingBooking(cl.userId, cl.coord) # {} THEN Conflict
                                ELSE IF ServiceValidation(cl.coord) # {} THEN BadRequest
                                ELSE None]
    /\ UNCHANGED <<now, slots, bookings, bookTask, freeTask>>

\* new bookingModel({userId, timeSlotId, bookingDate, bookingTime, status: CONFIRMED}).save()
CreateBooking_save(c) ==
    LET cl == call[c] IN
    /\ cl.pc = "cb_save"
    /\ bookings' = Append(bookings, [ userId |-> cl.userId, timeSlotId |-> cl.newSlot,
                                      coord |-> cl.coord, status |-> CONFIRMED,
                                      rescheduleCount |-> 0, cancelledAt |-> NoDate ])
    /\ call' = [call EXCEPT ![c].pc = "done", ![c].result = Ok,
                            ![c].bookingId = Len(bookings) + 1]
    /\ UNCHANGED <<now, slots, bookTask, freeTask>>

\* booking.save() rejects with an error of the store: the catch block finds
\* none of BadRequest, Conflict, NotFound and throws
\* BadRequestException('Unable to create booking. Please try again.')
CreateBooking_saveRejects(c) ==
    LET cl == call[c] IN
    /\ cl.pc = "cb_save"
    /\ call' = [call EXCEPT ![c].pc = "done", ![c].result = BadRequest,
                            ![c].storeError = TRUE]
    /\ UNCHANGED <<now, slots, bookings, bookTask, freeTask>>

createBooking(c) ==
    \/ CreateBooking_isSlotAvailable(c)
    \/ CreateBooking_findExisting(c)
    \/ CreateBooking_save(c)

-----------------------------------------------------------------------------
(* BookingService.cancelBooking *)

StartCancelBooking(c, id, u) ==
    /\ call[c].pc = "idle"
    /\ call' = [call EXCEPT ![c] =
                  [IdleCall EXCEPT !.op = "cancelBooking", !.pc = "xb_get",
                     !.bookingId = id, !.userId = u]]
    /\ UNCHANGED <<now, slots, bookings, bookTask, freeTask>>

\* a cancelBooking that takes no booking for cancelled
NeverAlreadyCancelled(b) == FALSE

\* booking.status === BookingStatus.CANCELLED: the call returns the booking
\* with freedSlot false
AlreadyCancelled(b) == b.status = CANCELLED

\* the freedSlot of the result of a cancelBooking that returned: true after
\* the Promise.all, false in the already-cancelled answer
freedSlot(cl) == cl.upd = "done"

\* findById, the ownership test, the already-cancelled answer, the one-hour
\* window, then Promise.all([findByIdAndUpdate(CANCELLED), freeSlot(timeSlotId, userId)])
CancelBooking_findById(c) ==
    LET cl == call[c] IN
    /\ cl.pc = "xb_get"
    /\ IF ~BookingExists(cl.bookingId)
       THEN /\ call' = [call EXCEPT ![c].pc = "done", ![c].result = NotFound]
            /\ UNCHANGED freeTask
       ELSE LET b == bookings[cl.bookingId] IN
            IF cl.userId # Unset /\ b.userId # cl.userId
            THEN /\ call' = [call EXCEPT ![c].pc = "done", ![c].result = BadRequest]
                 /\ UNCHANGED freeTask
            ELSE IF AlreadyCancelled(b)
            THEN /\ call' = [call EXCEPT ![c].pc = "done", ![c].result = Ok]
                 /\ UNCHANGED freeTask
            ELSE IF ~meetsAdvanceNotice(parseDateTime(b.coord[1], b.coord[2]), CancelWindowHours)
            THEN /\ call' = [call EXCEPT ![c].pc = "done", ![c].result = BadRequest]
                 /\ UNCHANGED freeTask
            ELSE /\ call' = [call EXCEPT ![c].pc = "run", ![c].upd = "pending",
                                         ![c].slotId = b.timeSlotId]
                 /\ freeTask' = [freeTask EXCEPT ![c] =
                      [pc |-> "update", slot |-> b.timeSlotId, user |-> cl.userId,
                       meta |-> Unset, res |-> None]]
    /\ UNCHANGED <<now, slots, bookings, bookTask>>

\* findByIdAndUpdate(bookingId, {$set: {status: CANCELLED, cancelledAt, cancelReason}})
CancelBooking_findByIdAndUpdate(c) ==
    LET cl == call[c] IN
    /\ cl.upd = "pending"
    /\ bookings' = [bookings EXCEPT ![cl.bookingId].status = CANCELLED,
                                    ![cl.bookingId].cancelledAt = DateOf(now)]
    /\ call' = [call EXCEPT ![c].upd = "done",
                            ![c].pc = IF freeTask[c].pc = "done" THEN "done" ELSE cl.pc]
    /\ UNCHANGED <<now, slots, bookTask, freeTask>>

\* the findByIdAndUpdate rejects with an error of the store: Promise.all
\* rejects, the freeSlot keeps running, and the catch block throws
\* BadRequestException('Unable to cancel booking. Please try again.'); the
\* call is done here when the freeSlot has settled too
CancelBooking_findByIdAndUpdateRejects(c) ==
    LET cl == call[c] IN
    /\ cl.upd = "pending"
    /\ call' = [call EXCEPT ![c].upd = "failed", ![c].result = BadRequest,
                            ![c].storeError = TRUE,
                            ![c].pc = IF freeTask[c].pc = "done" THEN "done" ELSE cl.pc]
    /\ UNCHANGED <<now, slots, bookings, bookTask, freeTask>>

cancelBooking(c) ==
    \/ CancelBooking_findById(c)
    \/ CancelBooking_findByIdAndUpdate(c)

-----------------------------------------------------------------------------
(* BookingService.rescheduleBooking *)

StartRescheduleBooking(c, id, coord, u) ==
    /\ call[c].pc = "idle"
    /\ BookingExists(id) => bookings[id].rescheduleCount < MaxReschedules
    /\ call' = [call EXCEPT ![c] =
                  [IdleCall EXCEPT !.op = "rescheduleBooking", !.pc = "rb_get",
                     !.bookingId = id, !.coord = coord, !.userId = u]]
    /\ UNCHANGED <<now, slots, bookings, bookTask, freeTask>>

\* findById, the ownership test, the cancelled test, the validation of the new
\* date and time, then rescheduleSlot(timeSlotId, newDate, newTime, userId),
\* which begins with the validation of findAvailableSlot
RescheduleBooking_findById(c) ==
    LET cl == call[c] IN
    /\ cl.pc = "rb_get"
    /\ IF ~BookingExists(cl.bookingId)
       THEN call' = [call EXCEPT ![c].pc = "done", ![c].result = NotFound]
       ELSE LET b == bookings[cl.bookingId] IN
            IF \/ cl.userId # Unset /\ b.userId # cl.userId
               \/ b.status = CANCELLED
               \/ BookingValidation(cl.coord) # {}
               \/ ServiceValidation(cl.coord) # {}
            THEN call' = [call EXCEPT ![c].pc = "done", ![c].result = BadRequest]
            ELSE call' = [call EXCEPT ![c].pc = "find", ![c].slotId = b.timeSlotId]
    /\ UNCHANGED <<now, slots, bookings, bookTask, freeTask>>

\* findByIdAndUpdate(bookingId, {$set: {timeSlotId: newSlot._id, bookingDate, bookingTime},
\*                               $inc: {rescheduleCount: 1}})
RescheduleBooking_findByIdAndUpdate(c) ==
    LET cl == call[c] IN
    /\ cl.pc = "rb_update"
    /\ bookings' = [bookings EXCEPT ![cl.bookingId].timeSlotId = cl.newSlot,
                                    ![cl.bookingId].coord = cl.coord,
                                    ![cl.bookingId].rescheduleCount = @ + 1]
    /\ call' = [call EXCEPT ![c].pc = "done", ![c].result = Ok]
    /\ UNCHANGED <<now, slots, bookTask, freeTask>>

\* the findByIdAndUpdate rejects with an error of the store: the catch block
\* throws BadRequestException('Unable to reschedule booking. Please try again.')
RescheduleBooking_findByIdAndUpdateRejects(c) ==
    LET cl == call[c] IN
    /\ cl.pc = "rb_update"
    /\ call' = [call EXCEPT ![c].pc = "done", ![c].result = BadRequest,
                            ![c].storeError = TRUE]
    /\ UNCHANGED <<now, slots, bookings, bookTask, freeTask>>

rescheduleBooking(c) ==
    \/ RescheduleBooking_findById(c)
    \/ RescheduleBooking_findByIdAndUpdate(c)

-----------------------------------------------------------------------------
(* TimeSlotService.freeMultipleSlots: Promise.allSettled over one freeSlot *)
(* per element of slotIds, each inside its own try/catch; the tasks take   *)
(* their store round trips in any order.                                   *)

\* a freeSlot of the batch before its findOneAndUpdate
BatchTask == [ pc |-> "update", success |-> FALSE, error |-> None ]

Positions(list) == [ i \in 1..Len(list) |-> i ]

\* (mutant) the first failure ends the batch: what follows it is not reported
FreedSlotsUntilFailure(slotIds, task) ==
    LET BeforeFailure(i) == \A j \in 1..i : task[j].success
        at == SelectSeq(Positions(slotIds), BeforeFailure)
    IN [ k \in 1..Len(at) |-> slotIds[at[k]] ]

\* results.forEach: the ids of the fulfilled tasks with success, in input order
FreedSlotsOf(slotIds, task) ==
    LET Succeeded(i) == task[i].success
        at == SelectSeq(Positions(slotIds), Succeeded)
    IN [ k \in 1..Len(at) |-> slotIds[at[k]] ]

\* results.forEach: {slotId, error} of the tasks that caught an exception
ErrorsOf(slotIds, task) ==
    LET Failed(i) == ~task[i].success
        at == SelectSeq(Positions(slotIds), Failed)
    IN [ k \in 1..Len(at) |-> [ slotId |-> slotIds[at[k]], error |-> task[at[k]].error ] ]

StartFreeMultipleSlots(slotIds, u) ==
    /\ batch = NoBatch
    /\ batch' = [ op |-> "freeMultipleSlots", pc |-> "run", slotIds |-> slotIds, userId |-> u,
                  task |-> [ i \in 1..Len(slotIds) |-> BatchTask ],
                  freedSlots |-> << >>, errors |-> << >> ]
    /\ UNCHANGED <<now, slots, call, bookTask, freeTask>>

\* freeSlot of element i: findOneAndUpdate
FreeMultipleSlots_findOneAndUpdate(i) ==
    /\ batch.op = "freeMultipleSlots" /\ batch.pc = "run"
    /\ i \in 1..Len(batch.slotIds)
    /\ batch.task[i].pc = "update"
    /\ IF HolderFilter(batch.slotIds[i], batch.userId)
       THEN /\ slots' = [slots EXCEPT ![batch.slotIds[i]] = FreedRow(slots[batch.slotIds[i]])]
            /\ batch' = [batch EXCEPT !.task[i].pc = "done", !.task[i].success = TRUE]
       ELSE /\ batch' = [batch EXCEPT !.task[i].pc = "find"]
            /\ UNCHANGED slots
    /\ UNCHANGED <<now, call, bookTask, freeTask>>

\* freeSlot of element i: findById after no document matched
FreeMultipleSlots_findById(i) ==
    /\ batch.op = "freeMultipleSlots" /\ batch.pc = "run"
    /\ i \in 1..Len(batch.slotIds)
    /\ batch.task[i].pc = "find"
    /\ batch' = IF ~RowExists(batch.slotIds[i])
                THEN [batch EXCEPT !.task[i].pc = "done", !.task[i].error = NotFound]
                ELSE IF slots[batch.slotIds[i]].status = AVAILABLE
                THEN [batch EXCEPT !.task[i].pc = "done", !.task[i].success = TRUE]
                ELSE [batch EXCEPT !.task[i].pc = "done", !.task[i].error = Conflict]
    /\ UNCHANGED <<now, slots, call, bookTask, freeTask>>

\* every task has settled: return {freedSlots, errors}
FreeMultipleSlots_return ==
    /\ batch.op = "freeMultipleSlots" /\ batch.pc = "run"
    /\ \A i \in 1..Len(batch.slotIds) : batch.task[i].pc = "done"
    /\ batch' = [batch EXCEPT !.pc = "done",
                   !.freedSlots = FreedSlotsOf(batch.slotIds, batch.task),
                   !.errors = ErrorsOf(batch.slotIds, batch.task)]
    /\ UNCHANGED <<now, slots, call, bookTask, freeTask>>

ReturnBatch ==
    /\ batch # NoBatch /\ batch.pc = "done"
    /\ batch' = NoBatch
    /\ UNCHANGED <<now, slots, call, bookTask, freeTask>>

freeMultipleSlots ==
    \/ \E i \in 1..MaxBatch : FreeMultipleSlots_findOneAndUpdate(i)
    \/ \E i \in 1..MaxBatch : FreeMultipleSlots_findById(i)
    \/ FreeMultipleSlots_return

-----------------------------------------------------------------------------
(* TimeSlotService.getAvailableSlotsRange: Promise.all over one            *)
(* getAvailableSlots per date of the range, each inside its own try/catch. *)

\* the getAvailableSlots of one date: its validation runs before the first
\* await and throws BadRequestException, which the catch turns into
\* {date, slots: []}
RangeTask(date, includeWeekends) ==
    IF ListingValidation(date, includeWeekends) = {}
    THEN [ pc |-> "find", failed |-> FALSE, slots |-> << >> ]
    ELSE [ pc |-> "done", failed |-> TRUE, slots |-> << >> ]

StartGetAvailableSlotsRange(startDate, days, includeWeekends) ==
    LET dateRange == IF includeWeekends
                     THEN getDateRange(days, parseDate(startDate))
                     ELSE getBusinessDateRange(days, parseDate(startDate))
    IN /\ batch = NoBatch
       /\ batch' = [ op |-> "getAvailableSlotsRange", pc |-> "run", startDate |-> startDate,
                     days |-> days, includeWeekends |-> includeWeekends,
                     dateRange |-> dateRange,
                     task |-> [ i \in 1..Len(dateRange) |->
                                  RangeTask(dateRange[i], includeWeekends) ],
                     slotsMap |-> << >> ]
       /\ UNCHANGED <<now, slots, grid, call, bookTask, freeTask>>

\* getOrCreateDaySlots of date i: the find
GetAvailableSlotsRange_find(i) ==
    /\ batch.op = "getAvailableSlotsRange" /\ batch.pc = "run"
    /\ i \in 1..Len(batch.dateRange)
    /\ batch.task[i].pc = "find"
    /\ LET existingSlots == FindDaySlots(batch.dateRange[i], SlotDuration) IN
       batch' = IF Len(existingSlots) > 0
                THEN [batch EXCEPT !.task[i].pc = "done",
                        !.task[i].slots =
                           StartTimes(filterAvailableSlots(existingSlots, batch.dateRange[i]))]
                ELSE [batch EXCEPT !.task[i].pc = "insert"]
    /\ UNCHANGED <<now, slots, grid, call, bookTask, freeTask>>

\* generateDaySlots of date i: insertMany
GetAvailableSlotsRange_insertMany(i) ==
    /\ batch.op = "getAvailableSlotsRange" /\ batch.pc = "run"
    /\ i \in 1..Len(batch.dateRange)
    /\ batch.task[i].pc = "insert"
    /\ LET createdSlots == SlotDocuments(batch.dateRange[i], SlotDuration) IN
       /\ grid' = GridAfterInsert(createdSlots)
       /\ slots' = SlotsAfterInsert(createdSlots)
       /\ batch' = [batch EXCEPT !.task[i].pc = "done",
                       !.task[i].slots =
                          StartTimes(filterAvailableSlots(createdSlots, batch.dateRange[i]))]
    /\ UNCHANGED <<now, call, bookTask, freeTask>>

\* results.forEach(({date, slots}) => slotsMap.set(date, slots))
SlotsMapOf(dateRange, task) ==
    [ date \in { dateRange[i] : i \in 1..Len(dateRange) } |->
        task[CHOOSE i \in 1..Len(dateRange) :
                /\ dateRange[i] = date
                /\ \A j \in 1..Len(dateRange) : dateRange[j] = date => j <= i].slots ]

GetAvailableSlotsRange_return ==
    /\ batch.op = "getAvailableSlotsRange" /\ batch.pc = "run"
    /\ \A i \in 1..Len(batch.dateRange) : batch.task[i].pc = "done"
    /\ batch' = [batch EXCEPT !.pc = "done",
                   !.slotsMap = SlotsMapOf(batch.dateRange, batch.task)]
    /\ UNCHANGED <<now, slots, grid, call, bookTask, freeTask>>

getAvailableSlotsRange ==
    \/ \E i \in 1..MaxRangeDays : GetAvailableSlotsRange_find(i)
    \/ \E i \in 1..MaxRangeDays : GetAvailableSlotsRange_insertMany(i)
    \/ GetAvailableSlotsRange_return

-----------------------------------------------------------------------------
(* TimeSlotService.cleanupOldSlots *)

\* cutoffDate = new Date(); cutoffDate.setDate(cutoffDate.getDate() - daysOld)
CutoffDate(daysOld) == now - daysOld * MinutesPerDay

\* the filter {date: {$lt: cutoffDate}}; the date of a row is midnight UTC of
\* its day
SweepsSlot(r, cutoff) == IsDocument(r) /\ parseDate(r.date) < cutoff

\* the values of daysOld that the controller passes on: parseInt of the query
\* parameter, or 30 when there is none
SlotDaysOldArgs == {-1, 0, 1, 30}

StartCleanupOldSlots(c, daysOld) ==
    /\ call[c].pc = "idle"
    /\ call' = [call EXCEPT ![c] =
                  [IdleCall EXCEPT !.op = "cleanupOldSlots", !.pc = "sweep",
                     !.daysOld = daysOld, !.cutoff = CutoffDate(daysOld)]]
    /\ UNCHANGED <<now, slots, bookings, bookTask, freeTask>>

\* deleteMany({date: {$lt: cutoffDate}})
CleanupOldSlots_deleteMany(c) ==
    LET cl == call[c] IN
    /\ cl.op = "cleanupOldSlots" /\ cl.pc = "sweep"
    /\ slots' = [ s \in SlotIds |->
                    IF SweepsSlot(slots[s], cl.cutoff) THEN RemovedRow(slots[s])
                    ELSE slots[s] ]
    /\ call' = [call EXCEPT ![c].pc = "done", ![c].result = Ok]
    /\ UNCHANGED <<now, bookings, bookTask, freeTask>>

-----------------------------------------------------------------------------
(* BookingService.cleanupOldBookings *)

\* (mutant) the filter of the sweep has lost its age condition
SweepsBookingOfAnyAge(b, cutoff) == b.status = CANCELLED

\* the filter {status: CANCELLED, cancelledAt: {$lt: cutoffDate}}
SweepsBooking(b, cutoff) ==
    /\ b.status = CANCELLED
    /\ \E cancelledAt \in b.cancelledAt : cancelledAt < cutoff

\* the values of daysOld that the controller passes on: parseInt of the query
\* parameter, or 90 when there is none
DaysOldArgs == {-1, 0, 1, 90}

StartCleanupOldBookings(c, daysOld) ==
    /\ call[c].pc = "idle"
    /\ call' = [call EXCEPT ![c] =
                  [IdleCall EXCEPT !.op = "cleanupOldBookings", !.pc = "sweep",
                     !.daysOld = daysOld, !.cutoff = CutoffDate(daysOld)]]
    /\ UNCHANGED <<now, slots, bookings, bookTask, freeTask>>

\* deleteMany({status: CANCELLED, cancelledAt: {$lt: cutoffDate}})
CleanupOldBookings_deleteMany(c) ==
    LET cl == call[c] IN
    /\ cl.op = "cleanupOldBookings" /\ cl.pc = "sweep"
    /\ bookings' = [ id \in 1..Len(bookings) |->
                       IF SweepsBooking(bookings[id], cl.cutoff) THEN NoBooking
                       ELSE bookings[id] ]
    /\ call' = [call EXCEPT ![c].pc = "done", ![c].result = Ok]
    /\ UNCHANGED <<now, slots, bookTask, freeTask>>

-----------------------------------------------------------------------------
\* the caller takes the outcome; its record is free for the next call
Return(c) ==
    /\ call[c].pc = "done"
    /\ call' = [call EXCEPT ![c] = IdleCall]
    /\ bookTask' = [bookTask EXCEPT ![c] = OffTask]
    /\ freeTask' = [freeTask EXCEPT ![c] = OffTask]
    /\ UNCHANGED <<now, slots>>

\* no other call is in flight or waiting to be collected
Alone(c) == \A d \in Callers \ {c} : call[d].pc = "idle"

\* the row a call addresses: by id, or by coordinates
Addressed(cl) ==
    IF cl.op = "bookSlotForBooking" THEN RowAt(cl.coord) ELSE cl.slotId

StartSlotCall(c) ==
    \/ \E s \in IdArgs, u \in UserArgs, m \in MetaArgs : StartBookSlot(c, s, u, m)
    \/ \E s \in IdArgs, u \in UserArgs : StartFreeSlot(c, s, u)
    \/ \E s \in IdArgs, u \in UserArgs : StartCancelSlot(c, s, u)
    \/ \E coord \in Coords, u \in Users, m \in MetaArgs : StartBookSlotForBooking(c, coord, u, m)
    \/ \E s \in IdArgs, coord \in Coords, u \in UserArgs : StartRescheduleSlot(c, s, coord, u)

StepSlotCall(c) ==
    \/ bookSlot(c)
    \/ freeSlot(c)
    \/ cancelSlot(c)
    \/ FindAvailableSlot(c)
    \/ RescheduleSlot_getSlotById(c)
    \/ Return(c)

(* Calls of the slot service, one at a time; the two tasks of a reschedule *)
(* still interleave with each other and with the clock.  pre records the   *)
(* addressed row as it was when the call in flight began.                  *)
NextSeq ==
    \/ \E c \in Callers :
          /\ Alone(c) /\ StartSlotCall(c)
          /\ pre' = RowView(Addressed(call'[c]))
          /\ UNCHANGED <<bookings, other>>
    \/ Tick /\ UNCHANGED <<pre, bookings, other>>
    \/ \E c \in Callers : StepSlotCall(c) /\ UNCHANGED <<pre, bookings, other>>

SpecSeq == Init /\ [][NextSeq]_vars

(* N callers race bookSlot calls; nothing else runs *)
NextRace ==
    \/ Tick /\ UNCHANGED <<pre, bookings, other>>
    \/ \E c \in Callers, s \in IdArgs, u \in UserArgs, m \in MetaArgs :
          StartBookSlot(c, s, u, m) /\ UNCHANGED <<pre, bookings, other>>
    \/ \E c \in Callers : bookSlot(c) /\ UNCHANGED <<pre, bookings, other>>

SpecRace == Init /\ [][NextRace]_vars

(* A rescheduling caller, the mover, who books for U1 and moves the        *)
(* booking, with or without naming the holder, against one rival.          *)
StartMover ==
    \/ \E s \in SlotIds, m \in MetaArgs : StartBookSlot(Mover, s, "U1", m)
    \/ \E s \in SlotIds, coord \in RowCoords, u \in {"U1", Unset} :
          StartRescheduleSlot(Mover, s, coord, u)

StepMover ==
    \/ bookSlot(Mover)
    \/ freeSlot(Mover)
    \/ FindAvailableSlot(Mover)
    \/ RescheduleSlot_getSlotById(Mover)
    \/ Return(Mover)

RivalBooks == \E s \in SlotIds, u \in {"U2", Unset} : StartBookSlot(Rival, s, u, "M2")

(* the rival makes a single bookSlot call *)
NextMove ==
    \/ Tick /\ UNCHANGED <<pre, bookings, other>>
    \/ StartMover /\ UNCHANGED <<pre, bookings, other>>
    \/ StepMover /\ UNCHANGED <<pre, bookings, other>>
    \/ RivalBooks /\ UNCHANGED <<pre, bookings, other>>
    \/ bookSlot(Rival) /\ UNCHANGED <<pre, bookings, other>>

SpecMove == Init /\ [][NextMove]_vars

(* Calls of the booking service.  The slot steps of a call are those of   *)
(* bookSlot, freeSlot, findAvailableSlot and rescheduleSlot above.         *)
StartBookingCall(c) ==
    \/ \E u \in Users, coord \in Coords : StartCreateBooking(c, u, coord)
    \/ \E id \in BookingIdArgs, u \in UserArgs : StartCancelBooking(c, id, u)
    \/ \E id \in BookingIdArgs, coord \in Coords, u \in UserArgs :
          StartRescheduleBooking(c, id, coord, u)

StepBookingStore(c) ==
    \/ createBooking(c)
    \/ cancelBooking(c)
    \/ rescheduleBooking(c)

StepSlotStore(c) ==
    \/ bookSlot(c)
    \/ freeSlot(c)
    \/ FindAvailableSlot(c)
    \/ RescheduleSlot_getSlotById(c)
    \/ Return(c)

(* booking calls, one at a time *)
NextBookingSeq ==
    \/ Tick /\ UNCHANGED <<pre, bookings, other>>
    \/ \E c \in Callers : Alone(c) /\ StartBookingCall(c) /\ UNCHANGED <<pre, other>>
    \/ \E c \in Callers : StepBookingStore(c) /\ UNCHANGED <<pre, other>>
    \/ \E c \in Callers : StepSlotStore(c) /\ UNCHANGED <<pre, bookings, other>>

SpecBookingSeq == Init /\ [][NextBookingSeq]_vars

(* Concurrent booking calls: a customer who books for U1 and then cancels  *)
(* or moves bookings, with or without naming the requester, against a      *)
(* rival who books for U2.                                                 *)
StartCustomer ==
    \/ \E coord \in RowCoords : StartCreateBooking(Mover, "U1", coord)
    \/ \E id \in 1..MaxBookings, u \in {"U1", Unset} : StartCancelBooking(Mover, id, u)
    \/ \E id \in 1..MaxBookings, coord \in RowCoords, u \in {"U1", Unset} :
          StartRescheduleBooking(Mover, id, coord, u)

StartRivalCustomer == \E coord \in RowCoords : StartCreateBooking(Rival, "U2", coord)

NextBooking ==
    \/ Tick /\ UNCHANGED <<pre, bookings, other>>
    \/ StartCustomer /\ UNCHANGED <<pre, other>>
    \/ StartRivalCustomer /\ UNCHANGED <<pre, other>>
    \/ \E c \in Callers : StepBookingStore(c) /\ UNCHANGED <<pre, other>>
    \/ \E c \in Callers : StepSlotStore(c) /\ UNCHANGED <<pre, bookings, other>>

SpecBooking == Init /\ [][NextBooking]_vars

(* The calls of the customer, while the rival cancels a booking of the     *)
(* customer in the customer's name, so that a cancel meets a reschedule of *)
(* the same booking; the clock stands still.                               *)
StartRivalCancel == \E id \in 1..MaxBookings : StartCancelBooking(Rival, id, "U1")

NextCancelRace ==
    \/ StartCustomer /\ UNCHANGED <<pre, other>>
    \/ StartRivalCancel /\ UNCHANGED <<pre, other>>
    \/ \E c \in Callers : StepBookingStore(c) /\ UNCHANGED <<pre, other>>
    \/ \E c \in Callers : StepSlotStore(c) /\ UNCHANGED <<pre, bookings, other>>

SpecCancelRace == Init /\ [][NextCancelRace]_vars

(* A caller who books and cancels slots for U1, against a rival who frees  *)
(* slots without naming a holder and books them for U2, while the clock    *)
(* moves on.                                                               *)
NextRollback ==
    \/ Tick /\ UNCHANGED <<pre, bookings, other>>
    \/ \E s \in SlotIds : StartBookSlot(Mover, s, "U1", Unset) /\ UNCHANGED <<pre, bookings, other>>
    \/ \E s \in SlotIds : StartCancelSlot(Mover, s, "U1") /\ UNCHANGED <<pre, bookings, other>>
    \/ \E s \in SlotIds : StartFreeSlot(Rival, s, Unset) /\ UNCHANGED <<pre, bookings, other>>
    \/ \E s \in SlotIds : StartBookSlot(Rival, s, "U2", "M2") /\ UNCHANGED <<pre, bookings, other>>
    \/ \E c \in Callers : bookSlot(c) /\ UNCHANGED <<pre, bookings, other>>
    \/ \E c \in Callers : cancelSlot(c) /\ UNCHANGED <<pre, bookings, other>>
    \/ \E c \in Callers : freeSlot(c) /\ UNCHANGED <<pre, bookings, other>>
    \/ \E c \in Callers : Return(c) /\ UNCHANGED <<pre, bookings, other>>

SpecRollback == Init /\ [][NextRollback]_vars

(* The calls of BookingService, one at a time, over a store whose writes   *)
(* to the bookings collection can fail.  pre records the two collections   *)
(* as they were when the call in flight began.                             *)
StoreRejects(c) ==
    \/ CreateBooking_saveRejects(c)
    \/ CancelBooking_findByIdAndUpdateRejects(c)
    \/ RescheduleBooking_findByIdAndUpdateRejects(c)

NextStoreError ==
    \/ \E c \in Callers :
          /\ Alone(c)
          /\ \/ \E coord \in RowCoords : StartCreateBooking(c, "U1", coord)
             \/ \E id \in 1..MaxBookings : StartCancelBooking(c, id, "U1")
             \/ \E id \in 1..MaxBookings, coord \in RowCoords :
                   StartRescheduleBooking(c, id, coord, "U1")
          /\ pre' = [ slots |-> slots, bookings |-> bookings ]
          /\ UNCHANGED other
    \/ \E c \in Callers : StepBookingStore(c) /\ UNCHANGED <<pre, other>>
    \/ \E c \in Callers : StoreRejects(c) /\ UNCHANGED <<pre, other>>
    \/ \E c \in Callers : StepSlotStore(c) /\ UNCHANGED <<pre, bookings, other>>

SpecStoreError == Init /\ [][NextStoreError]_vars

(* An empty collection, getAvailableSlots for tomorrow with the configured *)
(* and with the half-day duration by one caller, and bookSlot by id by     *)
(* another.  Slot 1 is the document of 12:00 of the hourly grid, slot 2    *)
(* the document of 09:00 of the half-day grid.                             *)
GridRow(s) ==
    IF s = 1
    THEN [NewRow(s) EXCEPT !.date = Today + 1, !.startTime = WorkStart + 3 * SlotDuration,
                           !.status = Absent]
    ELSE [NewRow(s) EXCEPT !.date = Today + 1, !.startTime = WorkStart,
                           !.duration = 4 * SlotDuration, !.status = Absent]

InitOverlap ==
    /\ now = StartInstant
    /\ tz = 0
    /\ slots = [s \in SlotIds |-> GridRow(s)]
    /\ grid = << >>
    /\ bookings = << >>
    /\ listing = [c \in Callers |-> IdleListing]
    /\ probe = NoProbe
    /\ batch = NoBatch
    /\ call = [c \in Callers |-> IdleCall]
    /\ bookTask = [c \in Callers |-> OffTask]
    /\ freeTask = [c \in Callers |-> OffTask]
    /\ pre = NoRow

NextOverlap ==
    \/ \E duration \in Durations : StartGetAvailableSlots(Mover, Today + 1, FALSE, duration)
    \/ getAvailableSlots(Mover)
    \/ \E s \in SlotIds, u \in Users :
          StartBookSlot(Rival, s, u, Unset) /\ UNCHANGED <<pre, bookings, other>>
    \/ bookSlot(Rival) /\ UNCHANGED <<pre, bookings, other>>
    \/ Return(Rival) /\ UNCHANGED <<pre, bookings, other>>

SpecOverlap == InitOverlap /\ [][NextOverlap]_vars

(* An empty collection.  One caller lists tomorrow with the configured     *)
(* duration; another reserves by coordinates: createBooking,               *)
(* bookSlotForBooking and rescheduleSlot for 12:00 and 13:00 of tomorrow,  *)
(* whose documents are slots 1 and 2.                                      *)
LazyRow(s) == [NewRow(s) EXCEPT !.date = Today + 1, !.status = Absent]

LazyCoords == { <<LazyRow(s).date, LazyRow(s).startTime>> : s \in SlotIds }

InitLazy ==
    /\ now = StartInstant
    /\ tz = 0
    /\ slots = [s \in SlotIds |-> LazyRow(s)]
    /\ grid = << >>
    /\ bookings = << >>
    /\ listing = [c \in Callers |-> IdleListing]
    /\ probe = NoProbe
    /\ batch = NoBatch
    /\ call = [c \in Callers |-> IdleCall]
    /\ bookTask = [c \in Callers |-> OffTask]
    /\ freeTask = [c \in Callers |-> OffTask]
    /\ pre = NoRow

NextLazy ==
    \/ StartGetAvailableSlots(Mover, Today + 1, FALSE, SlotDuration)
    \/ getAvailableSlots(Mover)
    \/ \E coord \in LazyCoords : StartCreateBooking(Rival, "U1", coord) /\ UNCHANGED <<pre, other>>
    \/ \E coord \in LazyCoords :
          StartBookSlotForBooking(Rival, coord, "U1", "M1") /\ UNCHANGED <<pre, bookings, other>>
    \/ \E s \in SlotIds, coord \in LazyCoords :
          StartRescheduleSlot(Rival, s, coord, "U1") /\ UNCHANGED <<pre, bookings, other>>
    \/ createBooking(Rival) /\ UNCHANGED <<pre, other>>
    \/ StepSlotStore(Rival) /\ UNCHANGED <<pre, bookings, other>>

SpecLazy == InitLazy /\ [][NextLazy]_vars

(* The slot service, one call at a time, while an administrator blocks     *)
(* slots: the status BLOCKED is written by no code of the service, only    *)
(* from outside it, at any moment.                                         *)
Block(s) ==
    /\ RowExists(s)
    /\ slots[s].status # BLOCKED
    /\ slots' = [slots EXCEPT ![s].status = BLOCKED]
    /\ UNCHANGED <<now, call, bookTask, freeTask>>

NextBlock ==
    \/ \E s \in SlotIds : Block(s) /\ UNCHANGED <<pre, bookings, other>>
    \/ Tick /\ UNCHANGED <<pre, bookings, other>>
    \/ \E c \in Callers :
          /\ Alone(c)
          /\ \/ \E s \in SlotIds : StartBookSlot(c, s, "U1", Unset)
             \/ \E s \in SlotIds, u \in {"U1", Unset} : StartFreeSlot(c, s, u)
             \/ \E s \in SlotIds, u \in {"U1", Unset} : StartCancelSlot(c, s, u)
             \/ \E s \in SlotIds, coord \in RowCoords : StartRescheduleSlot(c, s, coord, "U1")
          /\ UNCHANGED <<pre, bookings, other>>
    \/ \E c \in Callers : StepSlotCall(c) /\ UNCHANGED <<pre, bookings, other>>

SpecBlock == Init /\ [][NextBlock]_vars

(* freeMultipleSlots over every list of at most MaxBatch ids, known or     *)
(* not, repeated or not, and getAvailableSlotsRange over at most           *)
(* MaxRangeDays days, against the bookSlot calls of one caller.            *)
BatchLists ==
    UNION { [1..n -> SlotIds \cup {UnknownId}] : n \in 0..MaxBatch }

\* getAvailableSlotsRange from today or tomorrow (a Friday)
RangeStarts == {Today, Today + 1}

NextBatch ==
    \/ \E slotIds \in BatchLists, u \in UserArgs :
          StartFreeMultipleSlots(slotIds, u) /\ UNCHANGED <<pre, tz, grid, bookings, listing, probe>>
    \/ freeMultipleSlots /\ UNCHANGED <<pre, tz, grid, bookings, listing, probe>>
    \/ \E startDate \in RangeStarts, days \in 0..MaxRangeDays, includeWeekends \in BOOLEAN :
          StartGetAvailableSlotsRange(startDate, days, includeWeekends)
             /\ UNCHANGED <<pre, tz, bookings, listing, probe>>
    \/ getAvailableSlotsRange /\ UNCHANGED <<pre, tz, bookings, listing, probe>>
    \/ ReturnBatch /\ UNCHANGED <<pre, tz, grid, bookings, listing, probe>>
    \/ \E s \in SlotIds :
          StartBookSlot(Rival, s, "U2", Unset) /\ UNCHANGED <<pre, bookings, other>>
    \/ bookSlot(Rival) /\ UNCHANGED <<pre, bookings, other>>
    \/ Return(Rival) /\ UNCHANGED <<pre, bookings, other>>

SpecBatch == Init /\ [][NextBatch]_vars

(* The retention sweep of the slots against createBooking calls, over a    *)
(* collection that holds a row of today and a row of today, of tomorrow or *)
(* of forty days ago.                                                      *)
SweptRowDates == {Today - 40, Today, Today + 1}

InitSlotSweep ==
    /\ now = StartInstant
    /\ tz = 0
    /\ \E date \in SweptRowDates :
          slots = [s \in SlotIds |-> IF s = 2 THEN [NewRow(s) EXCEPT !.date = date]
                                     ELSE NewRow(s)]
    /\ grid = << >>
    /\ bookings = << >>
    /\ listing = [c \in Callers |-> IdleListing]
    /\ probe = NoProbe
    /\ batch = NoBatch
    /\ call = [c \in Callers |-> IdleCall]
    /\ bookTask = [c \in Callers |-> OffTask]
    /\ freeTask = [c \in Callers |-> OffTask]
    /\ pre = NoRow

NextSlotSweep ==
    \/ Tick /\ UNCHANGED <<pre, bookings, other>>
    \/ \E c \in Callers, daysOld \in SlotDaysOldArgs :
          StartCleanupOldSlots(c, daysOld) /\ UNCHANGED <<pre, other>>
    \/ \E c \in Callers : CleanupOldSlots_deleteMany(c) /\ UNCHANGED <<pre, other>>
    \/ \E c \in Callers, u \in Users, coord \in RowCoords :
          StartCreateBooking(c, u, coord) /\ UNCHANGED <<pre, other>>
    \/ \E c \in Callers : createBooking(c) /\ UNCHANGED <<pre, other>>
    \/ \E c \in Callers : FindAvailableSlot(c) /\ UNCHANGED <<pre, bookings, other>>
    \/ \E c \in Callers : bookSlot(c) /\ UNCHANGED <<pre, bookings, other>>
    \/ \E c \in Callers : Return(c) /\ UNCHANGED <<pre, bookings, other>>

SpecSlotSweep == InitSlotSweep /\ [][NextSlotSweep]_vars

(* The retention sweep of the bookings against cancelBooking and           *)
(* rescheduleBooking calls, over a collection of two bookings: the first   *)
(* CONFIRMED on the first slot or cancelled some time ago, the second      *)
(* cancelled some time ago.                                                *)
SweepAges == { MinutesPerHour \div 2, MinutesPerDay + MinutesPerHour,
               90 * MinutesPerDay, 91 * MinutesPerDay }

ConfirmedBooking ==
    [ userId |-> "U1", timeSlotId |-> 1, coord |-> <<RowDate(1), RowStart(1)>>,
      status |-> CONFIRMED, rescheduleCount |-> 0, cancelledAt |-> NoDate ]

CancelledBooking(s, age) ==
    [ userId |-> "U1", timeSlotId |-> s, coord |-> <<RowDate(s), RowStart(s)>>,
      status |-> CANCELLED, rescheduleCount |-> 0, cancelledAt |-> DateOf(StartInstant - age) ]

InitSweep ==
    /\ now = StartInstant
    /\ tz = 0
    /\ \E first \in {ConfirmedBooking} \cup { CancelledBooking(1, age) : age \in SweepAges },
          second \in { CancelledBooking(2, age) : age \in SweepAges } :
          /\ bookings = <<first, second>>
          /\ slots = [s \in SlotIds |->
                        IF s = 1 /\ first = ConfirmedBooking
                        THEN BookedRow(NewRow(s), "U1", BookingMeta) ELSE NewRow(s)]
    /\ grid = << >>
    /\ listing = [c \in Callers |-> IdleListing]
    /\ probe = NoProbe
    /\ batch = NoBatch
    /\ call = [c \in Callers |-> IdleCall]
    /\ bookTask = [c \in Callers |-> OffTask]
    /\ freeTask = [c \in Callers |-> OffTask]
    /\ pre = NoRow

NextSweep ==
    \/ Tick /\ UNCHANGED <<pre, bookings, other>>
    \/ \E c \in Callers, daysOld \in DaysOldArgs :
          StartCleanupOldBookings(c, daysOld) /\ UNCHANGED <<pre, other>>
    \/ \E c \in Callers : CleanupOldBookings_deleteMany(c) /\ UNCHANGED <<pre, other>>
    \/ \E c \in Callers, id \in 1..MaxBookings, u \in {"U1", Unset} :
          StartCancelBooking(c, id, u) /\ UNCHANGED <<pre, other>>
    \/ \E c \in Callers : cancelBooking(c) /\ UNCHANGED <<pre, other>>
    \/ \E c \in Callers, id \in 1..MaxBookings, coord \in RowCoords :
          StartRescheduleBooking(c, id, coord, "U1") /\ UNCHANGED <<pre, other>>
    \/ \E c \in Callers : rescheduleBooking(c) /\ UNCHANGED <<pre, other>>
    \/ \E c \in Callers : StepSlotStore(c) /\ UNCHANGED <<pre, bookings, other>>

SpecSweep == InitSweep /\ [][NextSweep]_vars

(* Concurrent calls of getAvailableSlots, with the default of no weekends, *)
(* over a collection in which the first row of today is free or already    *)
(* booked for U1.                                                          *)
InitGrid ==
    /\ now = StartInstant
    /\ tz = 0
    /\ \E held \in {{}, {1}} :
          slots = [s \in SlotIds |-> IF s \in held THEN BookedRow(NewRow(s), "U1", "M1")
                                     ELSE NewRow(s)]
    /\ grid = << >>
    /\ bookings = << >>
    /\ call = [c \in Callers |-> IdleCall]
    /\ bookTask = [c \in Callers |-> OffTask]
    /\ freeTask = [c \in Callers |-> OffTask]
    /\ listing = [c \in Callers |-> IdleListing]
    /\ probe = NoProbe
    /\ batch = NoBatch
    /\ pre = NoRow

TickGrid == Tick /\ UNCHANGED <<tz, grid, bookings, listing, probe, batch, pre>>

NextGrid ==
    \/ TickGrid
    \/ \E c \in Callers, date \in ListingDates, duration \in Durations :
          StartGetAvailableSlots(c, date, FALSE, duration)
    \/ \E c \in Callers : getAvailableSlots(c)

SpecGrid == InitGrid /\ [][NextGrid]_vars

(* One caller lists today and tomorrow with the configured duration, with  *)
(* a duration of an hour and a half and with a half-day duration.          *)
ListingDurations == {SlotDuration, SlotDuration + SlotDuration \div 2, 4 * SlotDuration}

NextDuration ==
    \/ TickGrid
    \/ \E date \in {Today, Today + 1}, duration \in ListingDurations :
          StartGetAvailableSlots(Mover, date, FALSE, duration)
    \/ getAvailableSlots(Mover)

SpecDuration == InitGrid /\ [][NextDuration]_vars

(* The functions of DateUtil applied to arguments, at some instant of day *)
(* 1 and on a server west of UTC, on UTC or east of it.                    *)
UtilNows == { Today * MinutesPerDay + h * MinutesPerHour : h \in {9, 10, 14, 22} }
UtilZones == { -5 * MinutesPerHour, 0, MinutesPerHour }
UtilDates == 0..3
UtilTimes == { h * MinutesPerHour : h \in {8, 12, 16} }
UtilTimeStrings == { <<9, 0>>, <<13, 0>>, <<17, 0>> }
UtilDurations == { -SlotDuration, 0, 30, SlotDuration, 90, 4 * SlotDuration }

InitUtil ==
    /\ now \in UtilNows
    /\ tz \in UtilZones
    /\ slots = [s \in SlotIds |-> NewRow(s)]
    /\ grid = << >>
    /\ bookings = << >>
    /\ call = [c \in Callers |-> IdleCall]
    /\ bookTask = [c \in Callers |-> OffTask]
    /\ freeTask = [c \in Callers |-> OffTask]
    /\ listing = [c \in Callers |-> IdleListing]
    /\ probe = NoProbe
    /\ batch = NoBatch
    /\ pre = NoRow

\* generateTimeSlots has no throw statement: a call returns its list, or its
\* loop does not end
Apply_generateTimeSlots(startTime, endTime, slotDuration) ==
    /\ probe' = [ op |-> "generateTimeSlots", startTime |-> startTime, endTime |-> endTime,
                  slotDuration |-> slotDuration, threw |-> FALSE,
                  out |-> generateTimeSlots(startTime, endTime, slotDuration) ]
    /\ UNCHANGED <<now, tz, slots, grid, bookings, call, bookTask, freeTask, listing, batch, pre>>

Apply_getAvailableTimeSlotsForDate(date, advanceHours) ==
    /\ probe' = [ op |-> "getAvailableTimeSlotsForDate", date |-> date,
                  advanceHours |-> advanceHours,
                  out |-> getAvailableTimeSlotsForDate(date, WorkingHoursStart, WorkingHoursEnd,
                                                       SlotDuration, advanceHours) ]
    /\ UNCHANGED <<now, tz, slots, grid, bookings, call, bookTask, freeTask, listing, batch, pre>>

\* isValid: errors.length === 0
Apply_validateBookingDateTime(date, time, advanceHours, allowWeekends) ==
    LET errors == validateBookingDateTime(date, time, advanceHours, WorkStart, WorkEnd,
                                          allowWeekends)
    IN /\ probe' = [ op |-> "validateBookingDateTime", date |-> date, time |-> time,
                     advanceHours |-> advanceHours, allowWeekends |-> allowWeekends,
                     errors |-> errors, isValid |-> (errors = {}) ]
       /\ UNCHANGED <<now, tz, slots, grid, bookings, call, bookTask, freeTask, listing, batch, pre>>

NextUtil ==
    \/ \E startTime \in UtilTimeStrings, endTime \in UtilTimeStrings, d \in UtilDurations :
          Apply_generateTimeSlots(startTime, endTime, d)
    \/ \E date \in UtilDates, advanceHours \in {CancelWindowHours, AdvanceHours} :
          Apply_getAvailableTimeSlotsForDate(date, advanceHours)
    \/ \E date \in UtilDates, time \in UtilTimes,
          advanceHours \in {CancelWindowHours, AdvanceHours}, allowWeekends \in BOOLEAN :
          Apply_validateBookingDateTime(date, time, advanceHours, allowWeekends)

SpecUtil == InitUtil /\ [][NextUtil]_vars

(* bookSlotForBooking on a server in any of the time zones, over a store   *)
(* that holds a Thursday row and a Saturday row of an earlier grid         *)
(* generation; the calls of the callers interleave.                        *)

SaturdayRow == [NewRow(2) EXCEPT !.date = 3, !.startTime = 720]

InitCoords ==
    /\ now = StartInstant
    /\ tz \in UtilZones
    /\ slots = [s \in SlotIds |-> IF s = 2 THEN SaturdayRow ELSE NewRow(s)]
    /\ grid = << >>
    /\ bookings = << >>
    /\ listing = [c \in Callers |-> IdleListing]
    /\ probe = NoProbe
    /\ batch = NoBatch
    /\ call = [c \in Callers |-> IdleCall]
    /\ bookTask = [c \in Callers |-> OffTask]
    /\ freeTask = [c \in Callers |-> OffTask]
    /\ pre = NoRow

NextCoords ==
    \/ Tick /\ UNCHANGED <<pre, bookings, other>>
    \/ \E c \in Callers, coord \in Coords, u \in Users, m \in MetaArgs :
          StartBookSlotForBooking(c, coord, u, m) /\ UNCHANGED <<pre, bookings, other>>
    \/ \E c \in Callers : FindAvailableSlot(c) /\ UNCHANGED <<pre, bookings, other>>
    \/ \E c \in Callers : bookSlot(c) /\ UNCHANGED <<pre, bookings, other>>
    \/ \E c \in Callers : Return(c) /\ UNCHANGED <<pre, bookings, other>>

SpecCoords == InitCoords /\ [][NextCoords]_vars

-----------------------------------------------------------------------------
(* Properties *)

Done(c, op) == call[c].op = op /\ call[c].pc = "done"

\* C1: when all N callers have run bookSlot on the same existing slot, which
\* was AVAILABLE and still meets advance notice, exactly one call succeeded,
\* every other call ended with ConflictException, and the slot is BOOKED by
\* the winner.
C1_ExactlyOneWinner ==
    \A s \in SlotIds :
        ( /\ \A c \in Callers : Done(c, "bookSlot") /\ call[c].slotId = s
          /\ meetsAdvanceNotice(slotDateTime(s), AdvanceHours) )
        => \E w \in Callers :
              /\ call[w].result = Ok
              /\ \A d \in Callers \ {w} : call[d].result = Conflict
              /\ slots[s].status = BOOKED
              /\ slots[s].bookedBy = call[w].userId

C1_Witness ==
    /\ \A c \in Callers : Done(c, "bookSlot") /\ call[c].slotId = 1
    /\ meetsAdvanceNotice(slotDateTime(1), AdvanceHours)
    /\ \E c \in Callers : call[c].result = Conflict

\* C2: in every reachable state each slot is BOOKED if and only if its
\* holder (bookedBy) and its reservation metadata are set.
C2_BookedIffHolderAndMetadata ==
    \A s \in SlotIds :
        slots[s].status = BOOKED
        <=> (slots[s].bookedBy # Unset /\ slots[s].metadata # Unset)

\* C3: every booking with status CONFIRMED references a slot that is BOOKED
\* and whose holder equals the booking's requester.  The property is one of
\* every reachable state; it is stated here for the states in which no call
\* is in flight, where it has to hold a fortiori.
C3_ConfirmedReferencesHeldSlot ==
    (\A c \in Callers : call[c].pc = "idle")
    => \A id \in 1..Len(bookings) :
          bookings[id].status = CONFIRMED
          => /\ slots[bookings[id].timeSlotId].status = BOOKED
             /\ slots[bookings[id].timeSlotId].bookedBy = bookings[id].userId

\* C4: a rescheduleSlot(A, B's coordinates, holder?) that began with A BOOKED
\* and returned success leaves A AVAILABLE with the holder cleared and B
\* BOOKED with the holder and the metadata A had before the call.
C4_RescheduleKeepsHolderAndMetadata ==
    \A c \in Callers :
        ( /\ Done(c, "rescheduleSlot")
          /\ call[c].result = Ok
          /\ pre.status = BOOKED )
        => /\ slots[call[c].slotId].status = AVAILABLE
           /\ slots[call[c].slotId].bookedBy = Unset
           /\ slots[call[c].newSlot].status = BOOKED
           /\ slots[call[c].newSlot].bookedBy = pre.bookedBy
           /\ slots[call[c].newSlot].metadata = pre.metadata

C6_FailedRescheduleNeverHoldsNew ==
    ( /\ Done(Mover, "rescheduleSlot")
      /\ call[Mover].result # Ok
      /\ call[Mover].newSlot # call[Mover].slotId )
    => bookTask[Mover].res # Ok

\* C7: freeSlot(slot, H) on a slot BOOKED by H (as a successful
\* bookSlot(slot, H, metadata) leaves it) succeeds and leaves the slot
\* AVAILABLE with holder, booked-at and metadata cleared: the row as it was
\* before the reserve, apart from the freed-at timestamp.
C7_ReserveReleaseRoundTrip ==
    \A c \in Callers :
        ( /\ Done(c, "freeSlot")
          /\ call[c].userId # Unset
          /\ pre.status = BOOKED
          /\ pre.bookedBy = call[c].userId )
        => /\ call[c].result = Ok
           /\ slots[call[c].slotId] = [NewRow(call[c].slotId) EXCEPT !.freedAt = Stamp]

C7_Witness ==
    \E c \in Callers :
        /\ Done(c, "freeSlot")
        /\ call[c].userId = "U1"
        /\ pre.status = BOOKED /\ pre.bookedBy = "U1"
        /\ pre.bookedAt = Stamp /\ pre.metadata = "M1"
        /\ call[c].result = Ok

\* C8: a release (freeSlot or cancelSlot, with or without a holder) of a slot
\* that is already AVAILABLE returns success and changes nothing.
C8_ReleaseOfAvailableIsNoOp ==
    \A c \in Callers :
        ( /\ Done(c, "freeSlot") \/ Done(c, "cancelSlot")
          /\ pre.exists
          /\ pre.status = AVAILABLE )
        => /\ call[c].result = Ok
           /\ RowView(call[c].slotId) = pre

\* C9: once a holder has reserved the slot at (date, time), a reserve by
\* coordinates for the same (date, time) by a different holder, at a time
\* when the coordinates pass validation, fails with ConflictException and
\* leaves the slot as it was.
C9_TakenCoordinatesYieldConflict ==
    \A c \in Callers :
        ( /\ Done(c, "bookSlotForBooking")
          /\ pre.status = BOOKED
          /\ pre.bookedBy \in Users \ {call[c].userId}
          /\ ServiceValidation(call[c].coord) = {} )
        => /\ call[c].result = Conflict
           /\ RowView(RowAt(call[c].coord)) = pre

\* C10: for bookSlot, freeSlot and cancelSlot the failure kinds are told
\* apart: NotFound is reported for an unknown slot id and only for it, and an
\* existing slot in the wrong status or held by another holder is reported
\* as Conflict.
C10_FailureKindsDistinct ==
    \A c \in Callers :
        ( Done(c, "bookSlot") \/ Done(c, "freeSlot") \/ Done(c, "cancelSlot") )
        => /\ (call[c].result = NotFound <=> ~pre.exists)
           /\ ( /\ pre.exists
                /\ Done(c, "bookSlot")
                /\ pre.status # AVAILABLE ) => call[c].result = Conflict
           /\ ( /\ pre.exists
                /\ Done(c, "freeSlot") \/ Done(c, "cancelSlot")
                /\ pre.status = BOOKED
                /\ call[c].userId # Unset
                /\ pre.bookedBy # call[c].userId ) => call[c].result = Conflict

\* C11: once the calls of getAvailableSlots that generated the grid of a
\* (date, duration) have completed, the store holds exactly one row per grid
\* offset of that (date, duration): no offset is missing and none is doubled.
C11_OneRowPerOffset ==
    (\A c \in Callers : listing[c].pc \in {"idle", "done"})
    => \A date \in ListingDates, duration \in Durations :
          LET rows == FindDaySlots(date, duration)
              offsets == generateTimeSlots(WorkingHoursStart, WorkingHoursEnd, duration).slots
          IN (\E i \in 1..Len(grid) : grid[i].date = date /\ grid[i].duration = duration)
             => \A k \in 1..Len(offsets) :
                   Cardinality({ i \in 1..Len(rows) : rows[i].startTime = offsets[k] }) = 1

\* the persisted AVAILABLE rows of (date, duration) that start at or after
\* the instant asOf plus the advance notice, in ascending order of start time
EligibleStarts(date, duration, asOf) ==
    LET Eligible(r) ==
            /\ r.status = AVAILABLE
            /\ parseDateTime(date, timeToMinutes(r.startTime)) >= asOf + AdvanceHours * MinutesPerHour
    IN StartTimes(SelectSeq(FindDaySlots(date, duration), Eligible))

\* C12: a listing for today's date with the configured duration returns
\* exactly the persisted AVAILABLE slots whose start is at or after now plus
\* the advance notice, in ascending order of start time.
C12_TodayListsEligibleSlots ==
    \A c \in Callers :
        ( /\ listing[c].pc = "done"
          /\ listing[c].date = listing[c].asOf \div MinutesPerDay
          /\ listing[c].duration = SlotDuration )
        => /\ listing[c].kind = Ok
           /\ listing[c].slots = EligibleStarts(listing[c].date, SlotDuration, listing[c].asOf)

\* C13: a listing for a weekday that has no eligible offset (a past date, or
\* today when no row starts at or after now plus the advance notice) returns
\* the empty list and raises no error.
C13_NoEligibleOffsetsListsEmpty ==
    \A c \in Callers :
        ( /\ listing[c].pc = "done"
          /\ ~isWeekendString(listing[c].date)
          /\ listing[c].date <= listing[c].asOf \div MinutesPerDay
          /\ EligibleStarts(listing[c].date, listing[c].duration, listing[c].asOf) = << >> )
        => /\ listing[c].kind = Ok
           /\ listing[c].slots = << >>

\* the offsets startTime + k * slotDuration (k >= 0) below endTime, in minutes
GridOffsets(startMinutes, endMinutes, slotDuration) ==
    { t \in startMinutes..(endMinutes - 1) : (t - startMinutes) % slotDuration = 0 }

\* a sequence of time strings in strictly ascending order
Ascending(times) ==
    \A i \in 1..(Len(times) - 1) : timeToMinutes(times[i]) < timeToMinutes(times[i + 1])

\* C14: on a server whose local time is UTC, getAvailableTimeSlotsForDate
\* returns, in ascending order, for today exactly the grid offsets that start
\* at or after now plus the advance notice (also when that instant falls on
\* the next day), for a past date nothing, for a later date the full grid.
C14_AvailableOffsetsMeetAdvanceNotice ==
    ( probe.op = "getAvailableTimeSlotsForDate" /\ tz = 0 )
    => LET full == GridOffsets(WorkStart, WorkEnd, SlotDuration)
           expected ==
               IF probe.date < now \div MinutesPerDay THEN {}
               ELSE IF probe.date > now \div MinutesPerDay THEN full
               ELSE { t \in full : probe.date * MinutesPerDay + t
                                     >= now + probe.advanceHours * MinutesPerHour }
       IN /\ Ascending(probe.out)
          /\ { timeToMinutes(probe.out[i]) : i \in 1..Len(probe.out) } = expected

\* C15: for startTime < endTime and duration > 0, generateTimeSlots returns,
\* in ascending order and without duplicates, exactly the offsets
\* startTime + k * duration (k >= 0) that are earlier than endTime.
C15_GridIsEveryOffsetBelowEnd ==
    ( /\ probe.op = "generateTimeSlots"
      /\ timeToMinutes(probe.startTime) < timeToMinutes(probe.endTime)
      /\ probe.slotDuration > 0 )
    => /\ probe.out.returned
       /\ Ascending(probe.out.slots)
       /\ \A i \in 1..Len(probe.out.slots) :
             probe.out.slots[i] = minutesToTime(timeToMinutes(probe.out.slots[i]))
       /\ { timeToMinutes(probe.out.slots[i]) : i \in 1..Len(probe.out.slots) }
             = GridOffsets(timeToMinutes(probe.startTime), timeToMinutes(probe.endTime),
                           probe.slotDuration)

C15_Witness ==
    /\ probe.op = "generateTimeSlots"
    /\ probe.startTime = <<9, 0>> /\ probe.endTime = <<17, 0>> /\ probe.slotDuration = 90
    /\ probe.out.returned
    /\ probe.out.slots = << <<9, 0>>, <<10, 30>>, <<12, 0>>, <<13, 30>>, <<15, 0>>, <<16, 30>> >>

\* C16: generateTimeSlots called with duration <= 0 or with startTime >=
\* endTime ends and reports a failure: it neither runs on nor returns a grid.
C16_BadArgumentsFail ==
    ( /\ probe.op = "generateTimeSlots"
      /\ \/ probe.slotDuration <= 0
         \/ timeToMinutes(probe.startTime) >= timeToMinutes(probe.endTime) )
    => probe.out.returned /\ probe.threw

\* C17: validateBookingDateTime reports exactly the violated rules among past
\* date, weekend not allowed, outside working hours and insufficient advance
\* notice, isValid is true iff there is none, and a Saturday or Sunday with
\* allowWeekends = false yields the weekend violation whatever the time and
\* the advance notice.
C17_ReportsExactlyTheViolatedRules ==
    probe.op = "validateBookingDateTime"
    => LET weekday == (probe.date + 3) % 7
           start == probe.date * MinutesPerDay + probe.time - tz
           violated ==
               (IF probe.date < localDay(now) THEN {"past"} ELSE {})
               \cup (IF ~probe.allowWeekends /\ weekday \in {0, 6} THEN {"weekend"} ELSE {})
               \cup (IF probe.time < WorkStart \/ probe.time >= WorkEnd THEN {"hours"} ELSE {})
               \cup (IF start < now + probe.advanceHours * MinutesPerHour
                     THEN {"advance"} ELSE {})
       IN /\ probe.errors = violated
          /\ probe.isValid <=> (violated = {})

\* C18: when the atomic reserve of bookSlot has succeeded and the double
\* check then finds that the start of the slot is earlier than now plus
\* advanceHours, the call goes on to the rollback and never returns a
\* reservation; the rollback ends the call with a validation error, and, no
\* other caller acting on the slot, the slot is left AVAILABLE with holder,
\* booked-at and metadata cleared.
C18_FailedDoubleCheckRollsBack ==
    /\ [][ \A c \in Callers :
             LET t == bookTask[c] IN
             /\ ( /\ call[c].op = "bookSlot" /\ t.pc = "check"
                  /\ ~ (parseDateTime(slots[t.slot].date, slots[t.slot].startTime)
                          >= now + AdvanceHours * MinutesPerHour)
                  /\ bookTask'[c] # t )
                => /\ slots[t.slot].status = BOOKED
                   /\ bookTask'[c].pc = "rollback"
                   /\ call'[c].pc = "run"
             /\ ( /\ call[c].op = "bookSlot" /\ t.pc = "rollback"
                  /\ bookTask'[c] # t )
                => /\ call'[c].pc = "done"
                   /\ call'[c].result = BadRequest ]_vars
    /\ [] ( \A c \in Callers :
              ( Done(c, "bookSlot") /\ call[c].result = BadRequest )
              => /\ pre.status = AVAILABLE
                 /\ slots[call[c].slotId].status = AVAILABLE
                 /\ slots[call[c].slotId].bookedBy = Unset
                 /\ slots[call[c].slotId].bookedAt = NoTime
                 /\ slots[call[c].slotId].metadata = Unset )

C18_Witness ==
    \E c \in Callers :
        /\ Done(c, "bookSlot")
        /\ call[c].result = BadRequest
        /\ call[c].userId = "U1" /\ call[c].meta = "M1"
        /\ pre.status = AVAILABLE
        /\ slots[call[c].slotId].status = AVAILABLE

\* the business rules a (date, time) pair violates at the present instant, in
\* the calendar of the server: the date is before today, the date is a
\* Saturday or Sunday, the time is outside working hours, the start is less
\* than advanceHours ahead
RulesViolatedNow(coord) ==
    (IF coord[1] < localDay(now) THEN {"past"} ELSE {})
    \cup (IF (coord[1] + 3) % 7 \in {0, 6} THEN {"weekend"} ELSE {})
    \cup (IF coord[2] < WorkStart \/ coord[2] >= WorkEnd THEN {"hours"} ELSE {})
    \cup (IF coord[1] * MinutesPerDay + coord[2] - tz < now + AdvanceHours * MinutesPerHour
          THEN {"advance"} ELSE {})

\* C19: a call of bookSlotForBooking whose coordinates violate a business
\* rule (past date, weekend, outside working hours, insufficient advance
\* notice) at the moment of the call fails at once with a validation error
\* and changes no slot, also when an AVAILABLE row exists at the coordinates;
\* in particular no call for a Saturday or Sunday ever reserves a slot.
C19_ReserveByCoordinatesRevalidates ==
    /\ [][ \A c \in Callers :
             ( /\ call[c].pc = "idle"
               /\ call'[c].op = "bookSlotForBooking"
               /\ RulesViolatedNow(call'[c].coord) # {} )
             => /\ call'[c].pc = "done"
                /\ call'[c].result = BadRequest
                /\ slots' = slots ]_vars
    /\ [] ( \A c \in Callers :
              ( /\ call[c].op = "bookSlotForBooking"
                /\ "weekend" \in RulesViolatedNow(call[c].coord) )
              => /\ call[c].result = BadRequest
                 /\ bookTask[c].pc = "off" )

\* C20: in every state in which no call is in flight, reached by concurrent
\* createBooking, cancelBooking and rescheduleBooking calls, the slot that a
\* CANCELLED booking references is not BOOKED on behalf of that booking: it
\* is not BOOKED with the requester of the booking as holder, unless it has
\* since been reserved for a booking that is CONFIRMED.
C20_CancelledBookingHoldsNoSlot ==
    (\A c \in Callers : call[c].pc = "idle")
    => \A id \in 1..Len(bookings) :
          ( /\ bookings[id].status = CANCELLED
            /\ slots[bookings[id].timeSlotId].status = BOOKED
            /\ slots[bookings[id].timeSlotId].bookedBy = bookings[id].userId )
          => \E held \in 1..Len(bookings) :
                /\ bookings[held].status = CONFIRMED
                /\ bookings[held].timeSlotId = bookings[id].timeSlotId

\* C21: the reschedule count of a booking never decreases and changes only
\* when a rescheduleBooking succeeds; every successful rescheduleBooking
\* increases it by exactly one, replaces the slot reference of the booking by
\* the new slot and leaves the slot referenced before AVAILABLE (no other
\* call acting in between).
C21_RescheduleCountsAndMoves ==
    [][ /\ \A id \in 1..Len(bookings) :
             /\ bookings'[id].rescheduleCount >= bookings[id].rescheduleCount
             /\ bookings'[id].rescheduleCount # bookings[id].rescheduleCount
                => \E c \in Callers :
                      /\ call[c].op = "rescheduleBooking" /\ call[c].bookingId = id
                      /\ call[c].pc # "done" /\ call'[c].pc = "done"
                      /\ call'[c].result = Ok
        /\ \A c \in Callers :
             ( /\ call[c].op = "rescheduleBooking"
               /\ call[c].pc # "done" /\ call'[c].pc = "done"
               /\ call'[c].result = Ok )
             => LET id == call[c].bookingId
                    old == bookings[id].timeSlotId
                IN /\ bookings'[id].rescheduleCount = bookings[id].rescheduleCount + 1
                   /\ bookings'[id].timeSlotId = call[c].newSlot
                   /\ slots'[old].status = AVAILABLE ]_vars

\* the failures that the slot operations of the call of c have raised
SlotLayerFailures(c) ==
    {freeTask[c].res, bookTask[c].res} \cap {Conflict, NotFound, BadRequest}

\* C22: when freeSlot, bookSlot or rescheduleSlot raises Conflict or NotFound
\* during a cancelBooking or a rescheduleBooking, the caller of the booking
\* operation receives that same kind: not BadRequest and not success.
C22_SlotErrorsKeepTheirKind ==
    \A c \in Callers :
        ( Done(c, "cancelBooking") \/ Done(c, "rescheduleBooking") )
        => \A kind \in {Conflict, NotFound} :
              SlotLayerFailures(c) = {kind} => call[c].result = kind

\* C23: freeSlot(slot, userId) on a slot BOOKED by a holder other than
\* userId fails with Conflict and leaves the row as it was, holder and
\* metadata included; on a BOOKED slot it releases the slot exactly when
\* userId is the holder or no userId is given.
C23_ReleaseIsHolderGated ==
    \A c \in Callers :
        ( Done(c, "freeSlot") /\ pre.exists /\ pre.status = BOOKED )
        => IF call[c].userId # Unset /\ pre.bookedBy # call[c].userId
           THEN /\ call[c].result = Conflict
                /\ RowView(call[c].slotId) = pre
           ELSE /\ call[c].result = Ok
                /\ slots[call[c].slotId].status = AVAILABLE

C23_Witness ==
    \E c \in Callers :
        /\ Done(c, "freeSlot")
        /\ call[c].userId = "U2"
        /\ pre.status = BOOKED /\ pre.bookedBy = "U1" /\ pre.metadata = "M1"
        /\ call[c].result = Conflict

C25_OnlyPastSlotsAreDeleted ==
    [][ \A s \in SlotIds :
          ( slots[s].status # None /\ slots'[s].status = None )
          => /\ \E c \in Callers :
                   /\ call[c].op = "cleanupOldSlots"
                   /\ call[c].pc = "sweep" /\ call'[c].pc = "done"
                   /\ slots[s].date * MinutesPerDay < now - call[c].daysOld * MinutesPerDay
             /\ slots[s].date < localDay(now)
             /\ ~ \E id \in 1..Len(bookings) :
                    /\ bookings[id].status = CONFIRMED
                    /\ bookings[id].timeSlotId = s
                    /\ slots[s].status = BOOKED ]_vars

\* the ids a list holds
IdsOf(list) == { list[i] : i \in 1..Len(list) }

\* how often an id occurs in a list
Occurrences(list, id) == Cardinality({ i \in 1..Len(list) : list[i] = id })

\* the dates of a range by the calendar: days consecutive dates from
\* startDate on, or the first days dates from startDate on that are neither
\* a Saturday nor a Sunday
IsWeekday(date) == (date + 3) % 7 \notin {0, 6}

DatesOfRange(startDate, days, includeWeekends) ==
    IF includeWeekends
    THEN { startDate + k : k \in 0..(days - 1) }
    ELSE { date \in startDate..(startDate + 7 * days) :
              /\ IsWeekday(date)
              /\ Cardinality({ e \in startDate..date : IsWeekday(e) }) <= days }

\* a getAvailableSlotsRange that has returned holds an entry for every date
\* of the range and for no other date, and the entry of a date whose
\* validation fails is the empty list
RangeReportsEveryDate ==
    ( batch.op = "getAvailableSlotsRange" /\ batch.pc = "done" )
    => /\ DOMAIN batch.slotsMap
            = DatesOfRange(batch.startDate, batch.days, batch.includeWeekends)
       /\ \A date \in DOMAIN batch.slotsMap :
             ListingValidation(date, batch.includeWeekends) # {}
             => batch.slotsMap[date] = << >>

\* a freeSlot of the batch whose filter matches releases its slot and
\* succeeds, whatever the other elements of the list have come to
ReleaseNotPrevented ==
    ( batch.op = "freeMultipleSlots" /\ batch.pc = "run" /\ batch'.op = "freeMultipleSlots" )
    => \A i \in 1..Len(batch.slotIds) :
          ( /\ batch.task[i].pc = "update" /\ batch'.task[i].pc # "update"
            /\ HolderFilter(batch.slotIds[i], batch.userId) )
          => /\ slots'[batch.slotIds[i]].status = AVAILABLE
             /\ batch'.task[i].success

\* C26 (as stated): a freeMultipleSlots that has returned reports every id
\* of its input list in exactly one of freedSlots and errors, and a
\* getAvailableSlotsRange that has returned holds an entry for every date of
\* the range, the empty list for a date whose listing failed.
C26_EveryIdInExactlyOneList ==
    /\ ( batch.op = "freeMultipleSlots" /\ batch.pc = "done" )
       => \A id \in IdsOf(batch.slotIds) :
             ( id \in IdsOf(batch.freedSlots) )
             # ( id \in { batch.errors[k].slotId : k \in 1..Len(batch.errors) } )
    /\ RangeReportsEveryDate

\* C26 (amended): batch operations report per item and never escalate a
\* partial failure.  A freeMultipleSlots that has returned reports every
\* element of its input list exactly once: freedSlots and errors together
\* hold every id as often as the input list does, freedSlots the elements
\* whose freeSlot succeeded and errors the others; a failure of one element
\* does not keep the freeSlot of another from releasing its slot.  A
\* getAvailableSlotsRange that has returned holds an entry for every date of
\* the range, the empty list for a date whose listing failed.
C26_BatchesReportPerItem ==
    [][ /\ ( batch'.op = "freeMultipleSlots" /\ batch'.pc = "done" )
           => /\ \A id \in IdsOf(batch'.slotIds) :
                    Occurrences(batch'.freedSlots, id)
                       + Occurrences([ k \in 1..Len(batch'.errors) |-> batch'.errors[k].slotId ], id)
                    = Occurrences(batch'.slotIds, id)
              /\ Len(batch'.freedSlots) + Len(batch'.errors) = Len(batch'.slotIds)
              /\ Len(batch'.freedSlots)
                    = Cardinality({ i \in 1..Len(batch'.slotIds) : batch'.task[i].success })
        /\ ReleaseNotPrevented
        /\ RangeReportsEveryDate' ]_vars

\* a freeMultipleSlots has returned one freed slot and one error, the failed
\* element standing before the freed one in the list
C26_Witness ==
    /\ batch.op = "freeMultipleSlots" /\ batch.pc = "done"
    /\ Len(batch.slotIds) = 2
    /\ ~batch.task[1].success /\ batch.task[2].success
    /\ Len(batch.freedSlots) = 1 /\ Len(batch.errors) = 1
    /\ slots[batch.slotIds[2]].status = AVAILABLE

\* C27: a createBooking by a requester who already has a non-cancelled
\* booking for exactly the same date and time, a date and time that satisfy
\* the business rules, is rejected with ConflictException; it saves no
\* second booking and changes no slot (calls one at a time).
C27_DuplicateClaimIsConflict ==
    [][ \A c \in Callers :
          ( /\ call[c].op = "createBooking" /\ call'[c].op = "createBooking"
            /\ call[c].pc # "done"
            /\ ExistingBooking(call[c].userId, call[c].coord) # {}
            /\ ServiceValidation(call[c].coord) = {} )
          => /\ bookings' = bookings
             /\ slots' = slots
             /\ call'[c].pc = "done" => call'[c].result = Conflict ]_vars

\* C28: BLOCKED is a dead state for the slot service.  No step of bookSlot,
\* freeSlot, cancelSlot or rescheduleSlot, their rollback writes included,
\* moves a slot into BLOCKED (a slot becomes BLOCKED only in a step in which
\* no call of the service moves), and once a slot is BLOCKED no step changes
\* its status, whatever calls are in flight.
C28_BlockedIsDead ==
    [][ \A s \in SlotIds :
          /\ ( slots[s].status # BLOCKED /\ slots'[s].status = BLOCKED )
             => UNCHANGED <<call, bookTask, freeTask>>
          /\ slots[s].status = BLOCKED => slots'[s].status = BLOCKED ]_vars

\* C29: allocated slots never overlap.  In every reachable state no two
\* BOOKED slots of the same calendar date have intervals [startTime,
\* startTime + duration) that intersect, also when grids of different
\* durations have been generated for the date through getAvailableSlots.
C29_BookedSlotsDoNotOverlap ==
    \A s1, s2 \in SlotIds :
       ( /\ s1 # s2
         /\ slots[s1].status = BOOKED /\ slots[s2].status = BOOKED
         /\ slots[s1].date = slots[s2].date )
       => \/ slots[s1].startTime + slots[s1].duration <= slots[s2].startTime
          \/ slots[s2].startTime + slots[s2].duration <= slots[s1].startTime

\* the signal of a failure of the store, which the error handling of the
\* specification tells from the validation signal
TransientStoreError == "TransientStoreError"

\* C30: a createBooking, cancelBooking or rescheduleBooking that met an
\* unexpected failure of the store ends with the transient-store error
\* signal, which is not the validation signal (BadRequest), and leaves both
\* collections as they were when the call began.
C30_StoreFailureIsTransientAndClean ==
    \A c \in Callers :
       ( call[c].pc = "done" /\ call[c].storeError )
       => /\ call[c].result = TransientStoreError
          /\ call[c].result # BadRequest
          /\ slots = pre.slots
          /\ bookings = pre.bookings

\* the slot is held for a bookSlot of another caller that has returned
\* success
HeldByAnother(s, c) ==
    /\ s \in SlotIds
    /\ slots[s].status = BOOKED
    /\ \E d \in Callers \ {c} :
          /\ Done(d, "bookSlot") /\ call[d].result = Ok
          /\ call[d].slotId = s
          /\ slots[s].bookedBy = call[d].userId

\* C31: a compensating rollback never overwrites another caller's work.
\* When the rollback write of a bookSlot whose double check failed, or of a
\* cancelSlot outside the cancellation window, is executed after another
\* caller has meanwhile successfully booked the slot, that hold (status
\* BOOKED, the other caller's holder) is still in place afterwards.
C31_RollbackKeepsForeignHold ==
    [][ \A c \in Callers :
          /\ ( /\ bookTask[c].pc = "rollback" /\ bookTask'[c].pc # "rollback"
               /\ HeldByAnother(bookTask[c].slot, c) )
             => /\ slots'[bookTask[c].slot].status = BOOKED
                /\ slots'[bookTask[c].slot].bookedBy = slots[bookTask[c].slot].bookedBy
          /\ ( /\ call[c].pc = "cancel_rollback" /\ call'[c].pc # "cancel_rollback"
               /\ HeldByAnother(call[c].slotId, c) )
             => /\ slots'[call[c].slotId].status = BOOKED
                /\ slots'[call[c].slotId].bookedBy = slots[call[c].slotId].bookedBy ]_vars

\* C32: a cancelSlot rejected because the slot starts less than one hour
\* from now leaves the slot exactly as it was when the call began: BOOKED,
\* with the same holder, the same booked-at timestamp and the same metadata,
\* with or without the optional userId.
C32_RejectedCancelRestoresRow ==
    \A c \in Callers :
        (Done(c, "cancelSlot") /\ call[c].result = BadRequest)
            => RowView(call[c].slotId) = pre

\* C33: cancelBooking is all or nothing.  When it reports failure because
\* freeSlot failed with NotFound or Conflict, the booking is still CONFIRMED
\* and carries no cancellation date; a booking is CANCELLED by a call only
\* when that call released the slot and returned success.
C33_CancelBookingAllOrNothing ==
    \A c \in Callers :
        ( /\ Done(c, "cancelBooking")
          /\ call[c].result # Ok
          /\ freeTask[c].res \in {NotFound, Conflict} )
        => /\ bookings[call[c].bookingId].status = CONFIRMED
           /\ bookings[call[c].bookingId].cancelledAt = NoDate

\* C34: createBooking leaves nothing behind when it fails.  Whenever it ends
\* with an error, a failure to save the booking after the slot was reserved
\* included, no slot that was free when the call began is BOOKED and no
\* booking has been added.
C34_FailedCreateLeavesNoOrphan ==
    \A c \in Callers :
        ( Done(c, "createBooking") /\ call[c].result # Ok )
        => /\ Len(bookings) = Len(pre.bookings)
           /\ \A s \in SlotIds :
                 slots[s].status = BOOKED => pre.slots[s].status = BOOKED

\* no call is in flight and no store task is still running
Quiescent ==
    \A c \in Callers :
        /\ call[c].pc = "idle"
        /\ bookTask[c].pc = "off"
        /\ freeTask[c].pc = "off"

\* the CONFIRMED bookings that refer to slot s
ConfirmedFor(s) ==
    { id \in 1..Len(bookings) :
        bookings[id].status = CONFIRMED /\ bookings[id].timeSlotId = s }

\* C35: no slot is held without a booking.  In every quiescent state reached
\* by concurrent createBooking, cancelBooking and rescheduleBooking calls,
\* every BOOKED slot is referenced by exactly one CONFIRMED booking, and
\* the slot of every CONFIRMED booking is BOOKED.
C35_HeldSlotsMatchConfirmedBookings ==
    Quiescent =>
        /\ \A s \in SlotIds :
              slots[s].status = BOOKED => Cardinality(ConfirmedFor(s)) = 1
        /\ \A id \in 1..Len(bookings) :
              bookings[id].status = CONFIRMED
                  => slots[bookings[id].timeSlotId].status = BOOKED

\* C36: for a valid future weekday and any requested duration d, the listing
\* returns every persisted AVAILABLE slot of duration d on that date, one
\* for each offset of the d-spaced grid over the working hours, in ascending
\* order of start time.
C36_ListingReturnsWholeGridOfDuration ==
    \A c \in Callers :
        ( /\ listing[c].pc = "done"
          /\ listing[c].kind = Ok
          /\ ~isWeekendString(listing[c].date)
          /\ listing[c].date > listing[c].asOf \div MinutesPerDay )
        => LET Free(r) == r.status = AVAILABLE
               rows == SelectSeq(FindDaySlots(listing[c].date, listing[c].duration), Free)
           IN /\ listing[c].slots = StartTimes(rows)
              /\ { timeToMinutes(listing[c].slots[i]) : i \in 1..Len(listing[c].slots) }
                    = GridOffsets(WorkStart, WorkEnd, listing[c].duration)

\* the lookup of a reserve by coordinates: the findOne of isSlotAvailable in
\* createBooking, or of findAvailableSlot
LooksUp(c) ==
    /\ call[c].op \in {"createBooking", "bookSlotForBooking", "rescheduleSlot"}
    /\ call[c].pc \in {"cb_avail", "find"}

\* no grid has been materialised
NothingMaterialised == grid = << >> /\ \A s \in SlotIds : slots[s].status = Absent

\* C37: slot rows are created only by listing availability.  A step that
\* brings a slot row into being is the insertMany of a getAvailableSlots
\* call; isSlotAvailable, bookSlotForBooking, createBooking and
\* rescheduleSlot insert none.  A reserve by coordinates for a date and time
\* that conform to the rules, made while no grid has been materialised, fails
\* as 'not available' (BadRequest) and leaves the store as it was.
C37_RowsComeFromListingOnly ==
    [][ /\ ( \/ grid' # grid
             \/ \E s \in SlotIds : slots[s].status = Absent /\ slots'[s].status # Absent )
           => \E c \in Callers : listing[c].pc = "insert" /\ listing'[c].pc = "done"
        /\ \A c \in Callers :
              ( LooksUp(c) /\ call'[c] # call[c] /\ NothingMaterialised )
              => /\ call'[c].pc = "done"
                 /\ call'[c].result = BadRequest
                 /\ UNCHANGED <<slots, grid, bookings>> ]_vars

\* a createBooking for rule-conforming coordinates has failed as not
\* available on a collection in which no grid has been materialised
C37_Witness ==
    /\ NothingMaterialised
    /\ \E c \in Callers :
          /\ Done(c, "createBooking") /\ call[c].result = BadRequest
          /\ ServiceValidation(call[c].coord) = {}

\* C38: cancelBooking is idempotent on the booking.  Called again on a
\* booking that is already CANCELLED, by its requester or without naming
\* one, it returns success with freedSlot false, starts no release and
\* changes neither the booking nor any slot, also when the slot the booking
\* refers to has meanwhile been booked by another requester.
C38_CancelOfCancelledChangesNothing ==
    [][ \A c \in Callers :
          ( /\ call[c].op = "cancelBooking" /\ call[c].pc = "xb_get"
            /\ call'[c] # call[c]
            /\ BookingExists(call[c].bookingId)
            /\ bookings[call[c].bookingId].status = CANCELLED
            /\ call[c].userId \in {Unset, bookings[call[c].bookingId].userId} )
          => /\ call'[c].pc = "done"
             /\ call'[c].result = Ok
             /\ ~freedSlot(call'[c])
             /\ UNCHANGED <<slots, bookings, bookTask, freeTask>> ]_vars

\* a cancelBooking has returned success on a booking of U1 that was already
\* CANCELLED and whose slot is now BOOKED for U2
C38_Witness ==
    \E c \in Callers :
        /\ Done(c, "cancelBooking") /\ call[c].result = Ok /\ ~freedSlot(call[c])
        /\ bookings[call[c].bookingId].status = CANCELLED
        /\ bookings[call[c].bookingId].userId = "U1"
        /\ slots[bookings[call[c].bookingId].timeSlotId].status = BOOKED
        /\ slots[bookings[call[c].bookingId].timeSlotId].bookedBy = "U2"

\* C39: every slot row that grid generation produced has the end time
\* startTime + duration and lies within the working hours: it does not start
\* before they begin and does not end after they end, for every duration,
\* those that do not divide the span of the working hours included.
C39_GeneratedRowsWithinWorkingHours ==
    \A i \in 1..Len(grid) :
        LET endTime == addMinutesToTime(grid[i].startTime, grid[i].duration)
        IN /\ timeToMinutes(endTime) = timeToMinutes(grid[i].startTime) + grid[i].duration
           /\ WorkStart <= timeToMinutes(grid[i].startTime)
           /\ timeToMinutes(endTime) <= WorkEnd

====
